---- MODULE Spec2Model ----
(***************************************************************************)
(* Model of crowdworks-monitor: the JSON-file-backed job store             *)
(* (job_storage.py) and the monitor application that drives it (main.py).  *)
(*                                                                         *)
(* Spec     : a JobStorage object used by a single caller                  *)
(*            (load_jobs / update_jobs / clear_jobs, the file being        *)
(*            human-editable between calls).                               *)
(* AppSpec  : the JobMonitorApp: start-up, button handlers, background     *)
(*            threads, the UI update queue and its timer-driven drain.     *)
(***************************************************************************)
EXTENDS Integers, Sequences, FiniteSets, TLC

VARIABLES
    jobs,       \* JobStorage.jobs: insertion-ordered dict, a sequence of [k, v]
    file,       \* the store file jobs_data.json: [kind, content]
    backups,    \* the corrupt files renamed to <file>.bak.<timestamp>
    lastCall,   \* the last JobStorage call: its arguments, outcome and return value
    phase,                  \* "off": no process; "on": JobMonitorApp constructed
    email_config,           \* self.email_config, the dict loaded from email_config.json
    email_enabled_switch,   \* email_enabled_switch.value
    gmail_address_field,    \* gmail_address_field.value
    mail_prompted,          \* hasattr(self, "_mail_prompted")
    filter,                 \* filter_keywords, filter_days, min_price, max_price
    is_scheduler_running,
    is_search_cancelled,
    buttons,                \* disabled / visible flags of the operation and search buttons
    threads,                \* the background threads started by the handlers
    ui_update_queue,        \* the closures waiting in ui_update_queue
    bgWidgetWrites,         \* kinds of background thread that wrote a widget directly
    lastNotified,           \* jobs argument of the last _send_email_notification call
    startClick              \* how the last click on the start button ended

storeVars == <<jobs, file, backups, lastCall>>

appVars == <<phase, email_config, email_enabled_switch, gmail_address_field,
             mail_prompted, filter, is_scheduler_running, is_search_cancelled,
             buttons, threads, ui_update_queue, bgWidgetWrites, lastNotified,
             startClick>>

vars == <<storeVars, appVars>>

\* ------------------------------------------------------------------ bounds
MaxBatch == 2       \* longest batch handed to update_jobs
MaxFetch == 1       \* most listings the site serves in one page
MaxThreads == 2     \* most background threads alive at a time
MaxQueue == 2       \* most closures waiting in ui_update_queue

\* ------------------------------------------------------------ listing ids
\* A provider id as the JSON payload carries it: an int or a string; str(id)
\* is its decimal text for an int and the string itself for a string.
IntId(text) == [type |-> "int", text |-> text]
StrId(text) == [type |-> "str", text |-> text]

Str(id) == id.text

\* ------------------------------------------------------- python dict model
\* A dict is the sequence of its items in insertion order.
EmptyDict == << >>

DictKeys(d) == {d[i].k : i \in 1..Len(d)}

DictGet(d, key) == d[CHOOSE i \in 1..Len(d) : d[i].k = key].v

DictValues(d) == [i \in 1..Len(d) |-> d[i].v]

\* d[key] = value: an existing key keeps its position, a new key is appended.
DictPut(d, key, value) ==
    IF key \in DictKeys(d)
    THEN [i \in 1..Len(d) |-> IF d[i].k = key THEN [k |-> key, v |-> value] ELSE d[i]]
    ELSE Append(d, [k |-> key, v |-> value])

\* d.update(e)
RECURSIVE DictUpdate(_, _)
DictUpdate(d, e) ==
    IF e = << >> THEN d
    ELSE DictUpdate(DictPut(d, Head(e).k, Head(e).v), Tail(e))

\* ------------------------------------------------------------- store file
AbsentFile == [kind |-> "absent", content |-> << >>]
EmptyFile == [kind |-> "empty", content |-> << >>]
BadJsonFile == [kind |-> "badjson", content |-> << >>]
UndecodableFile == [kind |-> "undecodable", content |-> << >>]
ListFile(content) == [kind |-> "list", content |-> content]

HasId(job) == "id" \in DOMAIN job

\* Mutant of KeyedByIdFrom: the dict is keyed by the title, not by str(id).
RECURSIVE KeyedByTitleFrom(_, _)
KeyedByTitleFrom(d, jobs_list) ==
    IF jobs_list = << >> THEN d
    ELSE KeyedByTitleFrom(DictPut(d, Head(jobs_list).title, Head(jobs_list)),
                          Tail(jobs_list))

\* {str(job['id']): job for job in jobs_list}
RECURSIVE KeyedByIdFrom(_, _)
KeyedByIdFrom(d, jobs_list) ==
    IF jobs_list = << >> THEN d
    ELSE KeyedByIdFrom(DictPut(d, Str(Head(jobs_list).id), Head(jobs_list)),
                       Tail(jobs_list))

KeyedById(jobs_list) == KeyedByIdFrom(EmptyDict, jobs_list)

\* Outcomes of the write in save_jobs: "ok", or the exception that save_jobs
\* swallows, raised by open() ("unchanged") or by json.dump after open() has
\* truncated the file and part of the text is written ("partial").
WriteOutcomes == {"ok", "unchanged", "partial"}

\* Mutant of SaveJobs: the file is opened for appending, so the text written
\* after an earlier document is no JSON document.
SaveJobsAppending(d, f, w) ==
    CASE w = "ok" -> IF f.kind \in {"absent", "empty"}
                     THEN [kind |-> "list", content |-> DictValues(d)]
                     ELSE [kind |-> "badjson", content |-> << >>]
      [] w = "unchanged" -> f
      [] w = "partial" -> [kind |-> "badjson", content |-> << >>]

\* save_jobs: the file after writing list(self.jobs.values()).
SaveJobs(d, f, w) ==
    CASE w = "ok" -> ListFile(DictValues(d))
      [] w = "unchanged" -> f
      [] w = "partial" -> BadJsonFile

\* Mutant of LoadJobs: after a JSON parse failure the corrupt file is backed up
\* but no fresh file is written.
LoadJobsNoFreshFile(d, f, b, renameOk, w) ==
    IF f.kind = "list"
    THEN IF \A i \in 1..Len(f.content) : HasId(f.content[i])
         THEN [jobs |-> KeyedById(f.content), file |-> f, backups |-> b]
         ELSE [jobs |-> EmptyDict, file |-> f, backups |-> b]
    ELSE IF f.kind = "badjson"
    THEN IF renameOk
         THEN [jobs |-> EmptyDict, file |-> AbsentFile, backups |-> b \cup {f}]
         ELSE [jobs |-> EmptyDict, file |-> f, backups |-> b]
    ELSE IF f.kind = "undecodable"
    THEN [jobs |-> EmptyDict, file |-> f, backups |-> b]
    ELSE [jobs |-> EmptyDict, file |-> SaveJobs(EmptyDict, f, w), backups |-> b]

\* load_jobs: [jobs, file, backups] after the call. renameOk: os.rename succeeds.
LoadJobs(d, f, b, renameOk, w) ==
    IF f.kind = "list"
    THEN IF \A i \in 1..Len(f.content) : HasId(f.content[i])
         THEN [jobs |-> KeyedById(f.content), file |-> f, backups |-> b]
         ELSE [jobs |-> EmptyDict, file |-> f, backups |-> b]        \* KeyError
    ELSE IF f.kind = "badjson"
    THEN IF renameOk
         THEN [jobs |-> EmptyDict, file |-> SaveJobs(EmptyDict, AbsentFile, w),
               backups |-> b \cup {f}]
         ELSE [jobs |-> EmptyDict, file |-> SaveJobs(EmptyDict, f, w), backups |-> b]
    ELSE IF f.kind = "undecodable"
    THEN [jobs |-> EmptyDict, file |-> f, backups |-> b]             \* except Exception
    ELSE [jobs |-> EmptyDict, file |-> SaveJobs(EmptyDict, f, w), backups |-> b]

\* The records update_jobs reports as new, in batch order.
RECURSIVE NewlyAdded(_, _)
NewlyAdded(existing_ids, new_jobs) ==
    IF new_jobs = << >> THEN << >>
    ELSE IF Str(Head(new_jobs).id) \notin existing_ids
         THEN <<Head(new_jobs)>> \o NewlyAdded(existing_ids, Tail(new_jobs))
         ELSE NewlyAdded(existing_ids, Tail(new_jobs))

\* Mutant of UpdateJobs: the store is replaced by the batch, not merged with it.
UpdateJobsReplacing(d, f, new_jobs, w) ==
    LET merged == KeyedById(new_jobs)
    IN [jobs |-> merged,
        file |-> SaveJobs(merged, f, w),
        ret |-> NewlyAdded(DictKeys(d), new_jobs)]

\* update_jobs: [jobs, file, ret] after the call.
UpdateJobs(d, f, new_jobs, w) ==
    LET merged == DictUpdate(d, KeyedById(new_jobs))
    IN [jobs |-> merged,
        file |-> SaveJobs(merged, f, w),
        ret |-> NewlyAdded(DictKeys(d), new_jobs)]

\* clear_jobs: [jobs, file] after the call.
ClearJobs(f, w) == [jobs |-> EmptyDict, file |-> SaveJobs(EmptyDict, f, w)]

\* ------------------------------------------------------ inputs of Spec
\* Listings as a caller may hand them to the store: ids 1, '1' and 2; the
\* listing with id '1' is a later version of the listing with id 1.
StoreJobs ==
    {[id |-> IntId("1"), title |-> "a"],
     [id |-> StrId("1"), title |-> "b"],
     [id |-> IntId("2"), title |-> "a"]}

\* A record of a hand-edited file that has no 'id' key.
NoIdJob == [title |-> "a"]

SeqsUpTo(S, n) == UNION {[1..m -> S] : m \in 0..n}

Batches == SeqsUpTo(StoreJobs, MaxBatch)

\* What the store file may hold when somebody else wrote it: no file, an empty
\* file, text that is not JSON, bytes that are not UTF-8, and lists of listings
\* (one of them repeating an id, one with a record that has no id).
ExternalFiles ==
    {AbsentFile, EmptyFile, BadJsonFile, UndecodableFile,
     ListFile(<< >>),
     ListFile(<<[id |-> IntId("1"), title |-> "a"]>>),
     ListFile(<<[id |-> IntId("1"), title |-> "a"], [id |-> StrId("1"), title |-> "b"]>>),
     ListFile(<<[id |-> IntId("2"), title |-> "a"], [id |-> IntId("1"), title |-> "a"]>>),
     ListFile(<<[id |-> IntId("2"), title |-> "a"], NoIdJob>>)}

NoCall == [op |-> "none"]

\* ------------------------------------------------- application: no process
\* No thread: cancelled tells, of a search thread, that the cancel button was
\* clicked during its search.
NoThread == [kind |-> "none", pc |-> "done", jobs |-> << >>, cancelled |-> FALSE]

Threads == 1..MaxThreads

\* filter_keywords = [], filter_days = 7, min_price = 0, max_price = 0
DefaultFilter == [keywords |-> << >>, days |-> 7, min_price |-> 0, max_price |-> 0]

\* default_config of _load_email_settings. Strings whose content the code
\* tests (addresses, passwords) are sequences of characters.
DefaultEmailConfig ==
    [enabled |-> FALSE, gmail_address |-> << >>, gmail_app_password |-> << >>,
     recipient |-> << >>, simulation_mode |-> TRUE, auto_fallback |-> TRUE,
     subject_template |-> "{count}"]

\* default_config of _load_email_config
LegacyDefaultConfig ==
    [enabled |-> FALSE, smtp_server |-> "smtp.gmail.com", smtp_port |-> 587,
     username |-> "your.email@example.com", password |-> << >>,
     recipient |-> << >>, from_name |-> "monitor"]

\* self.email_config.get(key, default)
ConfigGet(config, key, default) ==
    IF key \in DOMAIN config THEN config[key] ELSE default

\* email_config.json: absent, of size 0, not JSON, or holding a dict.
AbsentConfig == [kind |-> "absent"]

ConfigFile(config) == [kind |-> "dict", config |-> config]

\* The body shared by _load_email_config and _load_email_settings, which
\* differ in default_config only: [config returned, file and .bak afterwards,
\* raised]. w is the outcome of opening the file for writing, copyOk that of
\* shutil.copy. A write that fails in the JSONDecodeError handler leaves the
\* method by an exception.
LoadConfig(f, bak, default_config, w, copyOk) ==
    IF f.kind \in {"absent", "empty"}
    THEN [config |-> default_config,
          file |-> IF w = "ok" THEN ConfigFile(default_config) ELSE f,
          bak |-> bak, raised |-> FALSE]
    ELSE IF f.kind = "badjson"
    THEN [config |-> default_config,
          file |-> IF w = "ok" THEN ConfigFile(default_config) ELSE f,
          bak |-> IF copyOk THEN f ELSE bak,
          raised |-> w # "ok"]
    ELSE [config |-> f.config, file |-> f, bak |-> bak, raised |-> FALSE]

\* JobMonitorApp.__init__ as far as the email configuration goes: line 116
\* loads with _load_email_config (an exception leaves __init__), then
\* _init_ui_components loads again with _load_email_settings and falls back
\* to {"enabled": False} when that raises.
InitEmailConfig(f, w1, c1, w2, c2) ==
    LET a == LoadConfig(f, AbsentConfig, LegacyDefaultConfig, w1, c1)
        b == LoadConfig(a.file, a.bak, DefaultEmailConfig, w2, c2)
    IN IF a.raised THEN a
       ELSE IF b.raised
       THEN [config |-> [enabled |-> FALSE], file |-> b.file, bak |-> b.bak,
             raised |-> FALSE]
       ELSE b

\* The values of the application's variables while no process runs: only the
\* files (the store file and email_config.json) exist.
AppOff(config) ==
    /\ phase = "off"
    /\ email_config = config
    /\ email_enabled_switch = FALSE
    /\ gmail_address_field = << >>
    /\ mail_prompted = FALSE
    /\ filter = DefaultFilter
    /\ is_scheduler_running = FALSE
    /\ is_search_cancelled = FALSE
    /\ buttons = [refresh_disabled |-> TRUE, start_disabled |-> TRUE,
                  stop_disabled |-> TRUE, search_visible |-> FALSE,
                  cancel_visible |-> FALSE, progress_visible |-> FALSE]
    /\ threads = [t \in Threads |-> NoThread]
    /\ ui_update_queue = << >>
    /\ bgWidgetWrites = {}
    /\ lastNotified = << >>
    /\ startClick = "none"

\* ------------------------------------------------------- actions of Spec
\* Between two calls the file is edited, replaced or removed from outside.
EditFile ==
    /\ \E f \in ExternalFiles : file' = f
    /\ lastCall' = [op |-> "edit"]
    /\ UNCHANGED <<jobs, backups>>
    /\ UNCHANGED appVars

CallLoadJobs ==
    \E renameOk \in BOOLEAN, w \in WriteOutcomes :
        LET r == LoadJobs(jobs, file, backups, renameOk, w)
        IN /\ jobs' = r.jobs
           /\ file' = r.file
           /\ backups' = r.backups
           /\ lastCall' = [op |-> "load_jobs", prefile |-> file,
                           prebackups |-> backups, renameOk |-> renameOk, w |-> w]
           /\ UNCHANGED appVars

CallUpdateJobs ==
    \E new_jobs \in Batches, w \in WriteOutcomes :
        LET r == UpdateJobs(jobs, file, new_jobs, w)
        IN /\ jobs' = r.jobs
           /\ file' = r.file
           /\ lastCall' = [op |-> "update_jobs", pre |-> jobs,
                           batch |-> new_jobs, ret |-> r.ret, w |-> w]
           /\ UNCHANGED backups
           /\ UNCHANGED appVars

CallClearJobs ==
    \E w \in WriteOutcomes :
        LET r == ClearJobs(file, w)
        IN /\ jobs' = r.jobs
           /\ file' = r.file
           /\ lastCall' = [op |-> "clear_jobs", w |-> w]
           /\ UNCHANGED backups
           /\ UNCHANGED appVars

\* JobStorage.__init__ on whatever file it finds: self.jobs = {} then load_jobs().
Init ==
    \E f \in ExternalFiles, renameOk \in BOOLEAN, w \in WriteOutcomes :
        LET r == LoadJobs(EmptyDict, f, {}, renameOk, w)
        IN /\ jobs = r.jobs
           /\ file = r.file
           /\ backups = r.backups
           /\ lastCall = [op |-> "load_jobs", prefile |-> f,
                          prebackups |-> {}, renameOk |-> renameOk, w |-> w]
           /\ AppOff(DefaultEmailConfig)

Next ==
    \/ EditFile
    \/ CallLoadJobs
    \/ CallUpdateJobs
    \/ CallClearJobs

Spec == Init /\ [][Next]_vars

\* ------------------------------------------------ application: listings
\* datetime.now(), in days.
Today == 40

\* Characters fold to lower case as str.lower() does.
LowerChar(c) == IF c = "P" THEN "p" ELSE IF c = "A" THEN "a" ELSE c

Lower(s) == [i \in 1..Len(s) |-> LowerChar(s[i])]

\* sub in s
Contains(sub, s) ==
    \E i \in 0..(Len(s) - Len(sub)) : SubSeq(s, i + 1, i + Len(sub)) = sub

\* \s
IsSpace(c) == c = " "

\* str.strip()
RECURSIVE Strip(_)
Strip(t) ==
    IF t = << >> THEN t
    ELSE IF IsSpace(Head(t)) THEN Strip(Tail(t))
    ELSE IF IsSpace(t[Len(t)]) THEN Strip(SubSeq(t, 1, Len(t) - 1))
    ELSE t

\* job_info as get_job_offers builds it: id, title, description,
\* last_released_at (a day), payment_info (the amount its text starts with).
\* It has no 'date' key and no 'payment' key.
ListingFresh ==
    [id |-> IntId("1"), title |-> <<"P", "y">>, description |-> << >>,
     last_released_at |-> Today, payment_info |-> 5000]

ListingOld ==
    [id |-> IntId("2"), title |-> <<"a", "i">>, description |-> << >>,
     last_released_at |-> Today - 30, payment_info |-> 500]

Catalogue == {ListingFresh, ListingOld}

\* sample_jobs of _init_app and the demo data of _fetch_search_jobs
SampleJobs ==
    <<[id |-> IntId("12345"), title |-> <<"P", "y">>, description |-> << >>,
       last_released_at |-> Today - 30, payment_info |-> 50000]>>

\* What scraper.get_job_offers() may do: return the listings of the page (none
\* when the request or the extraction fails), or raise.
FetchResults ==
    {[raised |-> FALSE, jobs |-> js] : js \in SeqsUpTo(Catalogue, MaxFetch)}
    \cup {[raised |-> TRUE, jobs |-> << >>]}

\* ------------------------------------------------- application: filters
\* job.get('date', '')
JobDate(job) == IF "date" \in DOMAIN job THEN job.date ELSE << >>

\* is_within_days(job, days): the age is taken from the 'date' key.
IsWithinDays(job, days) ==
    IF days <= 0 THEN TRUE
    ELSE IF JobDate(job) = << >> THEN FALSE
    ELSE Today - JobDate(job)[1] <= days

\* get_job_price(job): the price is taken from the 'payment' key.
GetJobPrice(job) ==
    IF "payment" \notin DOMAIN job THEN -1
    ELSE IF job.payment.min_price # 0 THEN job.payment.min_price
    ELSE IF job.payment.max_price # 0 THEN job.payment.max_price
    ELSE -1

\* price_in_range(job, min_price, max_price)
PriceInRange(job, min_price, max_price) ==
    IF min_price <= 0 /\ max_price <= 0 THEN TRUE
    ELSE IF GetJobPrice(job) < 0 THEN FALSE
    ELSE IF min_price > 0 /\ max_price <= 0 THEN GetJobPrice(job) >= min_price
    ELSE IF min_price <= 0 /\ max_price > 0 THEN GetJobPrice(job) <= max_price
    ELSE min_price <= GetJobPrice(job) /\ GetJobPrice(job) <= max_price

\* The keyword loop of _filter_jobs: lower-cased keyword in lower-cased text.
MatchesKeywords(job, keywords) ==
    \E i \in 1..Len(keywords) :
        \/ Contains(Lower(keywords[i]), Lower(job.title))
        \/ Contains(Lower(keywords[i]), Lower(job.description))

\* _filter_jobs(jobs) under the criteria flt
FilterJobs(js, flt) ==
    LET byDate(j) == flt.days > 0 => IsWithinDays(j, flt.days)
        byKeyword(j) == flt.keywords # << >> => MatchesKeywords(j, flt.keywords)
        byPrice(j) == (flt.min_price > 0 \/ flt.max_price > 0) =>
                          PriceInRange(j, flt.min_price, flt.max_price)
        keep(j) == byDate(j) /\ byKeyword(j) /\ byPrice(j)
    IN SelectSeq(js, keep)

\* search_jobs_by_keyword(jobs, keywords): the stripped keyword, when not
\* empty, in title or description, as written.
SearchJobsByKeyword(js, keywords) ==
    LET hit(j) == \E i \in 1..Len(keywords) :
                      /\ Strip(keywords[i]) # << >>
                      /\ \/ Contains(Strip(keywords[i]), j.title)
                         \/ Contains(Strip(keywords[i]), j.description)
    IN IF keywords = << >> THEN js ELSE SelectSeq(js, hit)

\* _get_job_price(job): the amount extracted from the payment_info text.
GetJobPriceFromInfo(job) ==
    IF "payment_info" \in DOMAIN job THEN job.payment_info ELSE -1

\* The price loop of _fetch_search_jobs.
SearchPriceFilter(js, flt) ==
    LET keep(j) ==
            LET price == GetJobPriceFromInfo(j)
            IN /\ ~(price < 1 \/ price > 100000000)
               /\ IF flt.min_price > 0 /\ flt.max_price <= 0 THEN price >= flt.min_price
                  ELSE IF flt.min_price <= 0 /\ flt.max_price > 0 THEN price <= flt.max_price
                  ELSE flt.min_price <= price /\ price <= flt.max_price
    IN IF flt.min_price > 0 \/ flt.max_price > 0 THEN SelectSeq(js, keep) ELSE js

\* ------------------------------------------------- application: widgets
NoAddress == << >>

\* What the user may type into gmail_address_field.
Addresses == {<<"m">>, <<"m", "@">>}

\* '@' in address
HasAt(a) == \E i \in 1..Len(a) : a[i] = "@"

\* has_valid_email of _check_email_setting and _update_operation_buttons_state
HasValidEmail(switch, address) == switch /\ address # NoAddress /\ HasAt(address)

\* _update_operation_buttons_state
OperationButtonsState(b, valid, running) ==
    [b EXCEPT !.refresh_disabled = ~valid,
              !.start_disabled = ~valid \/ running,
              !.stop_disabled = ~valid \/ ~running]

\* Mutant of ResetSearchButtons: the cancel button is left visible.
ResetSearchButtonsLeavingCancel(b) ==
    [b EXCEPT !.search_visible = TRUE, !.progress_visible = FALSE,
              !.refresh_disabled = FALSE, !.start_disabled = FALSE]

\* _reset_search_buttons
ResetSearchButtons(b) ==
    [b EXCEPT !.search_visible = TRUE, !.cancel_visible = FALSE,
              !.progress_visible = FALSE,
              !.refresh_disabled = FALSE, !.start_disabled = FALSE]

\* JobMonitorApp has no method _start_scheduler_ui_update: the call raises
\* AttributeError.
StartSchedulerUiUpdateDefined == FALSE

\* What the user may enter in the search controls.
SearchCriteria ==
    {DefaultFilter,
     [keywords |-> <<<<"p", "y">>>>, days |-> 0, min_price |-> 1000, max_price |-> 0]}

\* self.email_config once __init__ has loaded email_config.json as found
\* at start-up: absent (a first run), holding the defaults of
\* _load_email_settings, or holding an enabled configuration with an address
\* and live fetching.
EmailConfigs ==
    {InitEmailConfig(f, "ok", TRUE, "ok", TRUE).config :
        f \in {AbsentConfig,
               ConfigFile(DefaultEmailConfig),
               ConfigFile([enabled |-> TRUE, gmail_address |-> <<"m", "@">>,
                           simulation_mode |-> FALSE])}}

\* ------------------------------------------------- application: threads
FreeThreads == {t \in Threads : threads[t].kind = "none"}

Running(kind) == {t \in Threads : threads[t].kind = kind}

NewThread(kind) ==
    [threads EXCEPT ![CHOOSE t \in FreeThreads : \A u \in FreeThreads : t <= u] =
        [kind |-> kind, pc |-> "start", jobs |-> << >>, cancelled |-> FALSE]]

\* Closures put on ui_update_queue.
Progress == [f |-> "update_progress", new_jobs |-> << >>]
ShowMailDialog == [f |-> "show_mail_dialog", new_jobs |-> << >>]
UpdateError == [f |-> "update_error", new_jobs |-> << >>]
UpdateSuccess(new_jobs) == [f |-> "update_success", new_jobs |-> new_jobs]
UpdateStartedState == [f |-> "update_started_state", new_jobs |-> << >>]

\* self.storage.save_jobs() during a session: the writes of a running
\* application are taken to succeed (Spec explores the failing ones).
SessionWrites == {"ok"}

\* _display_jobs: with an empty store it fetches on the calling thread and
\* overwrites the store; [jobs, file] after the call.
DisplayJobs(d, f, r, w) ==
    IF d = EmptyDict /\ ~r.raised
    THEN LET c == ClearJobs(f, w)
             u == UpdateJobs(c.jobs, c.file, r.jobs, w)
         IN [jobs |-> u.jobs, file |-> u.file]
    ELSE [jobs |-> d, file |-> f]

\* JobStorage.__init__ followed by _init_app: [jobs, file, backups] at its end.
InitApp(f, b, config, renameOk, r, w) ==
    LET loaded == LoadJobs(EmptyDict, f, b, renameOk, w)
        sampled == IF loaded.jobs = EmptyDict /\ ConfigGet(config, "simulation_mode", FALSE)
                   THEN UpdateJobs(loaded.jobs, loaded.file, SampleJobs, w)
                   ELSE [jobs |-> loaded.jobs, file |-> loaded.file, ret |-> << >>]
        cleared1 == ClearJobs(sampled.file, w)
        cleared2 == ClearJobs(cleared1.file, w)
        shown == DisplayJobs(cleared2.jobs, cleared2.file, r, w)
    IN [jobs |-> shown.jobs, file |-> shown.file, backups |-> loaded.backups]

\* ------------------------------------------------ application: handlers
\* JobMonitorApp.__init__
Startup ==
    /\ phase = "off"
    /\ \E renameOk \in BOOLEAN, r \in FetchResults, w \in SessionWrites :
        LET s == InitApp(file, backups, email_config, renameOk, r, w)
        IN /\ jobs' = s.jobs
           /\ file' = s.file
           /\ backups' = s.backups
    /\ phase' = "on"
    /\ email_enabled_switch' = ConfigGet(email_config, "enabled", FALSE)
    /\ gmail_address_field' = ConfigGet(email_config, "gmail_address", << >>)
    /\ buttons' = OperationButtonsState(
                      [refresh_disabled |-> FALSE, start_disabled |-> FALSE,
                       stop_disabled |-> TRUE, search_visible |-> TRUE,
                       cancel_visible |-> FALSE, progress_visible |-> FALSE],
                      HasValidEmail(ConfigGet(email_config, "enabled", FALSE),
                                    ConfigGet(email_config, "gmail_address", << >>)),
                      FALSE)
    /\ UNCHANGED <<lastCall, email_config, mail_prompted, filter, is_scheduler_running,
                   is_search_cancelled, threads, ui_update_queue, bgWidgetWrites,
                   lastNotified, startClick>>

\* The window is closed once no thread is left; the files stay.
Quit ==
    /\ phase = "on"
    /\ FreeThreads = Threads
    /\ jobs' = EmptyDict
    /\ phase' = "off"
    /\ email_enabled_switch' = FALSE
    /\ gmail_address_field' = NoAddress
    /\ mail_prompted' = FALSE
    /\ filter' = DefaultFilter
    /\ is_scheduler_running' = FALSE
    /\ is_search_cancelled' = FALSE
    /\ buttons' = [refresh_disabled |-> TRUE, start_disabled |-> TRUE,
                   stop_disabled |-> TRUE, search_visible |-> FALSE,
                   cancel_visible |-> FALSE, progress_visible |-> FALSE]
    /\ ui_update_queue' = << >>
    /\ bgWidgetWrites' = {}
    /\ lastNotified' = << >>
    /\ startClick' = "none"
    /\ UNCHANGED <<file, backups, lastCall, email_config, threads>>

\* _toggle_email_settings
ToggleEmailSettings ==
    /\ phase = "on"
    /\ \E v \in BOOLEAN :
        /\ email_enabled_switch' = v
        /\ buttons' = OperationButtonsState(buttons,
                          HasValidEmail(v, gmail_address_field), is_scheduler_running)
    /\ UNCHANGED <<storeVars, phase, email_config, gmail_address_field, mail_prompted,
                   filter, is_scheduler_running, is_search_cancelled, threads,
                   ui_update_queue, bgWidgetWrites, lastNotified, startClick>>

\* The user types into gmail_address_field, which is enabled when the loaded
\* configuration was.
EditAddress ==
    /\ phase = "on"
    /\ ConfigGet(email_config, "enabled", FALSE)
    /\ \E a \in Addresses : gmail_address_field' = a
    /\ UNCHANGED <<storeVars, phase, email_config, email_enabled_switch, mail_prompted,
                   filter, is_scheduler_running, is_search_cancelled, buttons, threads,
                   ui_update_queue, bgWidgetWrites, lastNotified, startClick>>

\* _handle_refresh_click
HandleRefreshClick ==
    /\ phase = "on"
    /\ ~buttons.refresh_disabled
    /\ FreeThreads # {}
    /\ Len(ui_update_queue) < MaxQueue
    /\ IF ~HasValidEmail(email_enabled_switch, gmail_address_field)
       THEN UNCHANGED <<mail_prompted, ui_update_queue, threads>>
       ELSE /\ IF ~ConfigGet(email_config, "enabled", FALSE) /\ ~mail_prompted
               THEN /\ mail_prompted' = TRUE
                    /\ ui_update_queue' = Append(ui_update_queue, ShowMailDialog)
               ELSE UNCHANGED <<mail_prompted, ui_update_queue>>
            /\ threads' = NewThread("refresh")
    /\ UNCHANGED <<storeVars, phase, email_config, email_enabled_switch,
                   gmail_address_field, filter, is_scheduler_running,
                   is_search_cancelled, buttons, bgWidgetWrites, lastNotified,
                   startClick>>

\* _handle_start_click: with a valid address it calls the undefined
\* _start_scheduler_ui_update before it would start the scheduler thread.
HandleStartClick ==
    /\ phase = "on"
    /\ ~buttons.start_disabled
    /\ IF ~HasValidEmail(email_enabled_switch, gmail_address_field)
       THEN /\ startClick' = "rejected"
            /\ UNCHANGED threads
       ELSE IF ~StartSchedulerUiUpdateDefined
       THEN /\ startClick' = "raised"
            /\ UNCHANGED threads
       ELSE /\ startClick' = "started"
            /\ FreeThreads # {}
            /\ threads' = NewThread("scheduler")
    /\ UNCHANGED <<storeVars, phase, email_config, email_enabled_switch,
                   gmail_address_field, mail_prompted, filter, is_scheduler_running,
                   is_search_cancelled, buttons, ui_update_queue, bgWidgetWrites,
                   lastNotified>>

\* _handle_search_click
HandleSearchClick ==
    /\ phase = "on"
    /\ buttons.search_visible
    /\ FreeThreads # {}
    /\ \E c \in SearchCriteria : filter' = c
    /\ is_search_cancelled' = FALSE
    /\ buttons' = [buttons EXCEPT !.search_visible = FALSE, !.cancel_visible = TRUE,
                                  !.progress_visible = TRUE,
                                  !.refresh_disabled = TRUE, !.start_disabled = TRUE]
    /\ threads' = NewThread("search")
    /\ UNCHANGED <<storeVars, phase, email_config, email_enabled_switch,
                   gmail_address_field, mail_prompted, is_scheduler_running,
                   ui_update_queue, bgWidgetWrites, lastNotified, startClick>>

\* _handle_search_cancel
HandleSearchCancel ==
    /\ phase = "on"
    /\ buttons.cancel_visible
    /\ is_search_cancelled' = TRUE
    /\ buttons' = ResetSearchButtons(buttons)
    /\ threads' = [t \in Threads |->
                       IF threads[t].kind = "search"
                       THEN [threads[t] EXCEPT !.cancelled = TRUE]
                       ELSE threads[t]]
    /\ UNCHANGED <<storeVars, phase, email_config, email_enabled_switch,
                   gmail_address_field, mail_prompted, filter, is_scheduler_running,
                   ui_update_queue, bgWidgetWrites, lastNotified, startClick>>

\* ------------------------------------------ application: thread bodies
\* _fetch_jobs up to the request of scraper.get_job_offers(): the first
\* update_progress closure is queued.
FetchJobsConnect(t) ==
    /\ threads[t].kind = "refresh"
    /\ threads[t].pc = "start"
    /\ Len(ui_update_queue) < MaxQueue
    /\ ui_update_queue' = Append(ui_update_queue, Progress)
    /\ threads' = [threads EXCEPT ![t] = [@ EXCEPT !.pc = "connecting"]]
    /\ UNCHANGED <<storeVars, phase, email_config, email_enabled_switch,
                   gmail_address_field, mail_prompted, filter, is_scheduler_running,
                   is_search_cancelled, buttons, bgWidgetWrites, lastNotified,
                   startClick>>

\* _fetch_jobs from the answer of get_job_offers() to its end: update_jobs and
\* the update_success closure, or the update_error closure when the fetch raised.
FetchJobsStore(t) ==
    /\ threads[t].kind = "refresh"
    /\ threads[t].pc = "connecting"
    /\ Len(ui_update_queue) + 1 < MaxQueue
    /\ \E r \in FetchResults, w \in SessionWrites :
        IF r.raised
        THEN /\ ui_update_queue' = Append(ui_update_queue, UpdateError)
             /\ UNCHANGED <<jobs, file>>
        ELSE LET u == UpdateJobs(jobs, file, r.jobs, w)
             IN /\ jobs' = u.jobs
                /\ file' = u.file
                /\ ui_update_queue' =
                       ui_update_queue \o <<Progress, UpdateSuccess(u.ret)>>
    /\ threads' = [threads EXCEPT ![t] = NoThread]
    /\ UNCHANGED <<backups, lastCall, phase, email_config, email_enabled_switch,
                   gmail_address_field, mail_prompted, filter, is_scheduler_running,
                   is_search_cancelled, buttons, bgWidgetWrites, lastNotified,
                   startClick>>

\* _fetch_search_jobs up to the fetch: it writes status_text and calls page.update
\* itself, and resets the buttons itself when cancelled or when the fetch raises.
SearchFetch(t) ==
    /\ threads[t].kind = "search"
    /\ threads[t].pc = "start"
    /\ bgWidgetWrites' = bgWidgetWrites \cup {"search"}
    /\ IF is_search_cancelled
       THEN /\ buttons' = ResetSearchButtons(buttons)
            /\ threads' = [threads EXCEPT ![t] = NoThread]
       ELSE IF ConfigGet(email_config, "simulation_mode", FALSE)
       THEN /\ threads' = [threads EXCEPT ![t] =
                    [@ EXCEPT !.pc = "fetched",
                              !.jobs = IF jobs = EmptyDict THEN SampleJobs
                                       ELSE DictValues(jobs)]]
            /\ UNCHANGED buttons
       ELSE \E r \in FetchResults :
                IF r.raised
                THEN /\ buttons' = ResetSearchButtons(buttons)
                     /\ threads' = [threads EXCEPT ![t] = NoThread]
                ELSE /\ threads' = [threads EXCEPT ![t] =
                            [@ EXCEPT !.pc = "fetched", !.jobs = r.jobs]]
                     /\ UNCHANGED buttons
    /\ UNCHANGED <<storeVars, phase, email_config, email_enabled_switch,
                   gmail_address_field, mail_prompted, filter, is_scheduler_running,
                   is_search_cancelled, ui_update_queue, lastNotified, startClick>>

\* _fetch_search_jobs from the second cancel check to its end: the filters,
\* storage.clear_jobs(), storage.update_jobs(jobs) and the widgets.
SearchStore(t) ==
    /\ threads[t].kind = "search"
    /\ threads[t].pc = "fetched"
    /\ IF is_search_cancelled
       THEN UNCHANGED <<jobs, file>>
       ELSE \E w \in SessionWrites :
                LET found == SearchPriceFilter(
                                 SearchJobsByKeyword(threads[t].jobs, filter.keywords),
                                 filter)
                    c == ClearJobs(file, w)
                    u == UpdateJobs(c.jobs, c.file, found, w)
                IN /\ jobs' = u.jobs
                   /\ file' = u.file
    /\ buttons' = ResetSearchButtons(buttons)
    /\ bgWidgetWrites' = bgWidgetWrites \cup {"search"}
    /\ threads' = [threads EXCEPT ![t] = NoThread]
    /\ UNCHANGED <<backups, lastCall, phase, email_config, email_enabled_switch,
                   gmail_address_field, mail_prompted, filter, is_scheduler_running,
                   is_search_cancelled, ui_update_queue, lastNotified, startClick>>

ThreadStep ==
    \E t \in Threads :
        \/ FetchJobsConnect(t)
        \/ FetchJobsStore(t)
        \/ SearchFetch(t)
        \/ SearchStore(t)

\* ------------------------------------------------ application: UI drain
\* The jobs the closure hands to _send_email_notification (none when it does
\* not call it).
NotifiedBy(new_jobs) ==
    IF /\ Len(new_jobs) > 0
       /\ email_enabled_switch
       /\ gmail_address_field # NoAddress
    THEN FilterJobs(new_jobs, filter)
    ELSE << >>

\* One turn of the loop of _process_ui_updates: the oldest closure is taken
\* from the queue and called. _display_jobs, run by update_success, hides the
\* progress container when it finds the store empty; update_started_state
\* sets is_scheduler_running and the start and stop buttons.
ProcessUiUpdate ==
    /\ phase = "on"
    /\ ui_update_queue # << >>
    /\ ui_update_queue' = Tail(ui_update_queue)
    /\ IF Head(ui_update_queue).f = "update_success"
       THEN /\ lastNotified' = NotifiedBy(Head(ui_update_queue).new_jobs)
            /\ \E r \in FetchResults, w \in SessionWrites :
                LET s == DisplayJobs(jobs, file, r, w)
                IN /\ jobs' = s.jobs
                   /\ file' = s.file
            /\ buttons' = IF jobs = EmptyDict
                          THEN [buttons EXCEPT !.progress_visible = FALSE]
                          ELSE buttons
       ELSE /\ lastNotified' = << >>
            /\ buttons' = IF Head(ui_update_queue) = UpdateStartedState
                          THEN [buttons EXCEPT !.start_disabled = TRUE,
                                               !.stop_disabled = FALSE]
                          ELSE buttons
            /\ UNCHANGED <<jobs, file>>
    /\ is_scheduler_running' =
           (is_scheduler_running \/ Head(ui_update_queue) = UpdateStartedState)
    /\ UNCHANGED <<backups, lastCall, phase, email_config, email_enabled_switch,
                   gmail_address_field, mail_prompted, filter,
                   is_search_cancelled, threads, bgWidgetWrites, startClick>>

\* --------------------------------------------------------------- AppSpec
AppInit ==
    /\ jobs = EmptyDict
    /\ file = AbsentFile
    /\ backups = {}
    /\ lastCall = NoCall
    /\ \E config \in EmailConfigs : AppOff(config)

AppNext ==
    \/ Startup
    \/ Quit
    \/ ToggleEmailSettings
    \/ EditAddress
    \/ HandleRefreshClick
    \/ HandleStartClick
    \/ HandleSearchClick
    \/ HandleSearchCancel
    \/ ThreadStep
    \/ ProcessUiUpdate

AppSpec == AppInit /\ [][AppNext]_vars

\* ------------------------------------------------------- scheduler
MaxPending == 4     \* most closures waiting on ui_update_queue

\* _update_stopped_state
UpdateStoppedState(b) == [b EXCEPT !.start_disabled = FALSE, !.stop_disabled = TRUE]

\* _handle_stop_click
HandleStopClick ==
    /\ phase = "on"
    /\ ~buttons.stop_disabled
    /\ IF HasValidEmail(email_enabled_switch, gmail_address_field)
          /\ is_scheduler_running
       THEN /\ is_scheduler_running' = FALSE
            /\ buttons' = UpdateStoppedState(buttons)
       ELSE UNCHANGED <<is_scheduler_running, buttons>>
    /\ UNCHANGED <<storeVars, phase, email_config, email_enabled_switch,
                   gmail_address_field, mail_prompted, filter, is_search_cancelled,
                   threads, ui_update_queue, bgWidgetWrites, lastNotified, startClick>>

\* _fetch_jobs run to its end on the scheduler thread t, which goes on at pc.
SchedulerFetchJobs(t, pc) ==
    /\ Len(ui_update_queue) + 3 <= MaxPending
    /\ \E r \in FetchResults, w \in SessionWrites :
        IF r.raised
        THEN /\ ui_update_queue' = ui_update_queue \o <<Progress, UpdateError>>
             /\ UNCHANGED <<jobs, file>>
        ELSE LET u == UpdateJobs(jobs, file, r.jobs, w)
             IN /\ jobs' = u.jobs
                /\ file' = u.file
                /\ ui_update_queue' =
                       ui_update_queue \o <<Progress, Progress, UpdateSuccess(u.ret)>>
    /\ threads' = [threads EXCEPT ![t] = [@ EXCEPT !.pc = pc]]
    /\ UNCHANGED <<backups, lastCall, phase, email_config, email_enabled_switch,
                   gmail_address_field, mail_prompted, filter, is_scheduler_running,
                   is_search_cancelled, buttons, bgWidgetWrites, lastNotified,
                   startClick>>

\* _start_scheduler up to _queue_ui_update(update_started_state)
StartScheduler(t) ==
    /\ threads[t].kind = "scheduler"
    /\ threads[t].pc = "start"
    /\ ui_update_queue' = Append(ui_update_queue, UpdateStartedState)
    /\ threads' = [threads EXCEPT ![t] = [@ EXCEPT !.pc = "fetching"]]
    /\ UNCHANGED <<storeVars, phase, email_config, email_enabled_switch,
                   gmail_address_field, mail_prompted, filter, is_scheduler_running,
                   is_search_cancelled, buttons, bgWidgetWrites, lastNotified,
                   startClick>>

\* _start_scheduler: self._fetch_jobs(initial_run=True)
SchedulerFirstFetch(t) ==
    /\ threads[t].kind = "scheduler"
    /\ threads[t].pc = "fetching"
    /\ SchedulerFetchJobs(t, "loop")

\* _start_scheduler: one test of `while self.is_scheduler_running`. While the
\* flag is set, run_pending() runs _fetch_jobs when the hour is over; when
\* it is not set the method ends.
SchedulerLoop(t) ==
    /\ threads[t].kind = "scheduler"
    /\ threads[t].pc = "loop"
    /\ IF is_scheduler_running
       THEN SchedulerFetchJobs(t, "loop")
       ELSE /\ threads' = [threads EXCEPT ![t] = NoThread]
            /\ UNCHANGED <<storeVars, phase, email_config, email_enabled_switch,
                           gmail_address_field, mail_prompted, filter,
                           is_scheduler_running, is_search_cancelled, buttons,
                           ui_update_queue, bgWidgetWrites, lastNotified, startClick>>

\* The application with notification on and an address, its store empty, and
\* the thread of threading.Thread(target=self._start_scheduler) started.
SchedulerInit ==
    /\ jobs = EmptyDict
    /\ file = AbsentFile
    /\ backups = {}
    /\ lastCall = NoCall
    /\ phase = "on"
    /\ email_config = [enabled |-> TRUE, gmail_address |-> <<"m", "@">>,
                       simulation_mode |-> FALSE]
    /\ email_enabled_switch = TRUE
    /\ gmail_address_field = <<"m", "@">>
    /\ mail_prompted = FALSE
    /\ filter = DefaultFilter
    /\ is_scheduler_running = FALSE
    /\ is_search_cancelled = FALSE
    /\ buttons = [refresh_disabled |-> FALSE, start_disabled |-> FALSE,
                  stop_disabled |-> TRUE, search_visible |-> TRUE,
                  cancel_visible |-> FALSE, progress_visible |-> FALSE]
    /\ threads = [t \in Threads |->
                     IF t = 1 THEN [NoThread EXCEPT !.kind = "scheduler", !.pc = "start"]
                     ELSE NoThread]
    /\ ui_update_queue = << >>
    /\ bgWidgetWrites = {}
    /\ lastNotified = << >>
    /\ startClick = "started"

SchedulerNext ==
    \/ \E t \in Threads : StartScheduler(t)
    \/ \E t \in Threads : SchedulerFirstFetch(t)
    \/ \E t \in Threads : SchedulerLoop(t)
    \/ ProcessUiUpdate
    \/ HandleStopClick
    \/ ToggleEmailSettings

SchedulerSpec == SchedulerInit /\ [][SchedulerNext]_vars

\* ------------------------------------------------------- UI update queue
MaxUpdates == 4     \* most updates handed to _queue_ui_update

\* The closures the loop of _process_ui_updates calls in one run over the
\* queue q: up to the first that raises, that one included (the except clause
\* is outside the loop), or all of them.
CalledInOneRun(q) ==
    IF \E i \in 1..Len(q) : q[i].raises
    THEN CHOOSE i \in 1..Len(q) : q[i].raises /\ \A j \in 1..(i - 1) : ~q[j].raises
    ELSE Len(q)

\* Mutant of ProcessUiUpdates: an exception leaves the queue empty.
ProcessUiUpdatesDroppingRest(q) ==
    [invoked |-> SubSeq(q, 1, CalledInOneRun(q)),
     queue |-> << >>]

\* _process_ui_updates run over the queue q: the closures it has called and
\* the queue it leaves.
ProcessUiUpdates(q) ==
    [invoked |-> SubSeq(q, 1, CalledInOneRun(q)),
     queue |-> SubSeq(q, CalledInOneRun(q) + 1, Len(q))]

\* The running application with an empty queue. lastCall keeps the updates
\* handed to _queue_ui_update and the updates called, each in order.
QueueInit ==
    /\ jobs = EmptyDict
    /\ file = AbsentFile
    /\ backups = {}
    /\ lastCall = [op |-> "none", queued |-> << >>, invoked |-> << >>]
    /\ phase = "on"
    /\ email_config = DefaultEmailConfig
    /\ email_enabled_switch = FALSE
    /\ gmail_address_field = NoAddress
    /\ mail_prompted = FALSE
    /\ filter = DefaultFilter
    /\ is_scheduler_running = FALSE
    /\ is_search_cancelled = FALSE
    /\ buttons = [refresh_disabled |-> TRUE, start_disabled |-> TRUE,
                  stop_disabled |-> TRUE, search_visible |-> TRUE,
                  cancel_visible |-> FALSE, progress_visible |-> FALSE]
    /\ threads = [t \in Threads |-> NoThread]
    /\ ui_update_queue = << >>
    /\ bgWidgetWrites = {}
    /\ lastNotified = << >>
    /\ startClick = "none"

\* _queue_ui_update(update_func): the n-th closure handed over, which raises
\* when called or does not.
QueueUiUpdate ==
    /\ Len(lastCall.queued) < MaxUpdates
    /\ \E raises \in BOOLEAN :
        LET update_func == [f |-> "update", n |-> Len(lastCall.queued) + 1,
                            raises |-> raises]
        IN /\ ui_update_queue' = Append(ui_update_queue, update_func)
           /\ lastCall' = [lastCall EXCEPT !.op = "_queue_ui_update",
                                           !.queued = Append(@, update_func)]
    /\ UNCHANGED <<jobs, file, backups, phase, email_config, email_enabled_switch,
                   gmail_address_field, mail_prompted, filter, is_scheduler_running,
                   is_search_cancelled, buttons, threads, bgWidgetWrites,
                   lastNotified, startClick>>

\* update_timer_callback: one tick of the timer, which runs _process_ui_updates.
UpdateTimerCallback ==
    /\ ui_update_queue' = ProcessUiUpdates(ui_update_queue).queue
    /\ lastCall' = [lastCall EXCEPT
                       !.op = "_process_ui_updates",
                       !.invoked = @ \o ProcessUiUpdates(ui_update_queue).invoked]
    /\ UNCHANGED <<jobs, file, backups, phase, email_config, email_enabled_switch,
                   gmail_address_field, mail_prompted, filter, is_scheduler_running,
                   is_search_cancelled, buttons, threads, bgWidgetWrites,
                   lastNotified, startClick>>

QueueNext ==
    \/ QueueUiUpdate
    \/ UpdateTimerCallback

\* The timer keeps ticking.
QueueSpec == QueueInit /\ [][QueueNext]_vars /\ WF_vars(UpdateTimerCallback)

\* ------------------------------------------------------------ scraper
MaxOffers == 2      \* most job offers in one payload

\* Values json.loads can give: None, bool, number, str, list, dict. A str is
\* the sequence of its words, a dict the sequence of its items.
JNull == [t |-> "null"]
JBool(b) == [t |-> "bool", b |-> b]
JNum(n) == [t |-> "num", n |-> n]
JStr(words) == [t |-> "str", s |-> words]
JList(items) == [t |-> "list", items |-> items]
JDict(items) == [t |-> "dict", items |-> items]

\* bool(v)
Truthy(v) ==
    CASE v.t = "null" -> FALSE
      [] v.t = "bool" -> v.b
      [] v.t = "num" -> v.n # 0
      [] v.t = "str" -> v.s # << >>
      [] v.t = "list" -> v.items # << >>
      [] v.t = "dict" -> v.items # << >>

\* key in v: "yes", "no", or the TypeError of a value that is no container.
InValue(key, v) ==
    CASE v.t = "dict" -> IF key \in DictKeys(v.items) THEN "yes" ELSE "no"
      [] v.t = "list" -> IF \E i \in 1..Len(v.items) : v.items[i] = JStr(<<key>>)
                         THEN "yes" ELSE "no"
      [] v.t = "str" -> IF Contains(<<key>>, v.s) THEN "yes" ELSE "no"
      [] OTHER -> "TypeError"

\* The payment of one offer and the payment_info text get_job_offers builds
\* from it; an amount is its digits, "" when the field is missing or null.
\* "en", "~", "jikyu" and "kijitanka" stand for the yen sign word, the wave
\* dash, and the words for hourly wage and price per article.
PaymentInfo(payment) ==
    CASE payment.kind = "fixed_price_payment" ->
            IF payment.min # "" /\ payment.max # ""
            THEN <<payment.min, "en", " ", "~", " ", payment.max, "en">>
            ELSE IF payment.max # "" THEN <<"~", " ", payment.max, "en">>
            ELSE IF payment.min # "" THEN <<payment.min, "en", " ", "~">>
            ELSE << >>
      [] payment.kind = "hourly_payment" ->
            <<"jikyu", " ", payment.min, "en", " ", "~", " ", payment.max, "en">>
      [] payment.kind = "fixed_price_writing_payment" ->
            IF payment.min # "" THEN <<"kijitanka", " ", payment.min, "en">> ELSE << >>
      [] OTHER -> << >>

\* job_info of one element of job_offers
JobInfo(offer) ==
    [id |-> offer.job_offer.id, title |-> offer.job_offer.title,
     payment_info |-> PaymentInfo(offer.payment)]

\* The loop over job_data['searchResult'].get('job_offers', []): AttributeError
\* at the first element that is no dict.
JobOffersOf(offers) ==
    IF \E i \in 1..Len(offers) : offers[i].t # "dict"
    THEN [raised |-> "AttributeError", jobs |-> << >>]
    ELSE [raised |-> "none", jobs |-> [i \in 1..Len(offers) |-> JobInfo(offers[i])]]

\* _get_page_content and _extract_job_data: the parsed payload, or None when
\* the request fails, the container or its data attribute is missing, or the
\* attribute is no JSON.
ExtractJobData(page) ==
    IF page.kind # "html" \/ ~page.container \/ ~page.has_data \/ ~page.json
    THEN JNull
    ELSE page.data

\* get_job_offers on what the site answers: [raised, jobs]
GetJobOffers(page) ==
    LET job_data == ExtractJobData(page)
    IN IF page.kind # "html" THEN [raised |-> "none", jobs |-> << >>]
       ELSE IF ~Truthy(job_data) THEN [raised |-> "none", jobs |-> << >>]
       ELSE IF InValue("searchResult", job_data) = "TypeError"
       THEN [raised |-> "TypeError", jobs |-> << >>]
       ELSE IF InValue("searchResult", job_data) = "no"
       THEN [raised |-> "none", jobs |-> << >>]
       ELSE IF job_data.t # "dict" THEN [raised |-> "TypeError", jobs |-> << >>]
       ELSE LET result == DictGet(job_data.items, "searchResult")
            IN IF result.t # "dict" THEN [raised |-> "AttributeError", jobs |-> << >>]
               ELSE IF "job_offers" \notin DictKeys(result.items)
               THEN [raised |-> "none", jobs |-> << >>]
               ELSE LET offers == DictGet(result.items, "job_offers")
                    IN CASE offers.t = "list" -> JobOffersOf(offers.items)
                         [] offers.t = "str" -> JobOffersOf([i \in 1..Len(offers.s) |->
                                                                JStr(<<offers.s[i]>>)])
                         [] offers.t = "dict" -> JobOffersOf([i \in 1..Len(offers.items) |->
                                                                 JStr(<<offers.items[i].k>>)])
                         [] OTHER -> [raised |-> "TypeError", jobs |-> << >>]

\* The payments an offer may carry.
Payments ==
    {[kind |-> "none", min |-> "", max |-> ""],
     [kind |-> "hourly_payment", min |-> "1500", max |-> "2000"]}
    \cup {[kind |-> "fixed_price_payment", min |-> a, max |-> b] :
              a \in {"", "1000"}, b \in {"", "5000"}}
    \cup {[kind |-> "fixed_price_writing_payment", min |-> a, max |-> ""] :
              a \in {"", "3000"}}

\* The elements of job_offers: offers, and a number where an offer should be.
Offers ==
    {[t |-> "dict", job_offer |-> [id |-> IntId("1"), title |-> <<"P", "y">>],
      payment |-> pm] : pm \in Payments}
    \cup {JNum(5)}

\* The values a data attribute that is JSON may parse to.
Payloads ==
    {JNull, JBool(FALSE), JBool(TRUE), JNum(0), JNum(5),
     JStr(<< >>), JStr(<<"x">>), JStr(<<"searchResult">>),
     JList(<< >>), JList(<<JNum(5)>>), JList(<<JStr(<<"searchResult">>)>>),
     JDict(<< >>), JDict(<<[k |-> "x", v |-> JNull]>>),
     JDict(<<[k |-> "searchResult", v |-> JNull]>>),
     JDict(<<[k |-> "searchResult", v |-> JDict(<< >>)]>>)}
    \cup {JDict(<<[k |-> "searchResult",
                   v |-> JDict(<<[k |-> "job_offers", v |-> x]>>)]>>) :
              x \in {JNull, JStr(<< >>), JStr(<<"x">>)}
                    \cup {JList(os) : os \in SeqsUpTo(Offers, MaxOffers)}}

\* What the site may answer: no answer (RequestException), an empty body, or
\* HTML with or without the container, its data attribute, and JSON in it.
Pages ==
    {[kind |-> k, container |-> FALSE, has_data |-> FALSE, json |-> FALSE,
      data |-> JNull] : k \in {"request_failed", "empty"}}
    \cup {[kind |-> "html", container |-> c, has_data |-> h, json |-> j, data |-> d] :
              c \in BOOLEAN, h \in BOOLEAN, j \in BOOLEAN, d \in Payloads}

\* ---------------------------------------------------- actions of ScraperSpec
CallGetJobOffers ==
    /\ \E page \in Pages :
        lastCall' = [op |-> "get_job_offers", page |-> page, ret |-> GetJobOffers(page)]
    /\ UNCHANGED <<jobs, file, backups, appVars>>

\* No object exists yet; the scraper keeps no state between calls.
NoObjects ==
    /\ jobs = EmptyDict
    /\ file = AbsentFile
    /\ backups = {}
    /\ lastCall = NoCall
    /\ AppOff(DefaultEmailConfig)

ScraperSpec == NoObjects /\ [][CallGetJobOffers]_vars

\* ------------------------------------------------------------- notifier
\* How one SMTP conversation (connect, starttls, login, send_message) ends.
SmtpOutcomes == {"ok", "auth_error", "error"}

\* _send_email_notification returned before any SMTP call.
NoSend == [attempts |-> 0, sent |-> FALSE, raised |-> FALSE]

\* Mutant of SendEmailNotification: a failed fallback is logged, not raised.
SendEmailNotificationSwallowing(config, is_test, first, second) ==
    IF ~ConfigGet(config, "enabled", FALSE) THEN NoSend
    ELSE IF ConfigGet(config, "simulation_mode", TRUE) /\ ~is_test THEN NoSend
    ELSE IF ~HasAt(ConfigGet(config, "recipient", << >>)) THEN NoSend
    ELSE IF \/ ConfigGet(config, "gmail_address", << >>) = << >>
            \/ ConfigGet(config, "gmail_app_password", << >>) = << >>
    THEN NoSend
    ELSE IF first = "ok" THEN [attempts |-> 1, sent |-> TRUE, raised |-> FALSE]
    ELSE IF ConfigGet(config, "auto_fallback", TRUE)
    THEN [attempts |-> 2, sent |-> second = "ok", raised |-> FALSE]
    ELSE [attempts |-> 1, sent |-> FALSE, raised |-> TRUE]

\* _send_email_notification: the number of smtplib.SMTP connections opened
\* (port 587, then port 465), whether a message was sent, and whether the
\* call left by an exception. first and second are the outcomes of the two
\* SMTP conversations, should they take place.
SendEmailNotification(config, is_test, first, second) ==
    IF ~ConfigGet(config, "enabled", FALSE) THEN NoSend
    ELSE IF ConfigGet(config, "simulation_mode", TRUE) /\ ~is_test THEN NoSend
    ELSE IF ~HasAt(ConfigGet(config, "recipient", << >>)) THEN NoSend
    ELSE IF \/ ConfigGet(config, "gmail_address", << >>) = << >>
            \/ ConfigGet(config, "gmail_app_password", << >>) = << >>
    THEN NoSend
    ELSE IF first = "ok" THEN [attempts |-> 1, sent |-> TRUE, raised |-> FALSE]
    ELSE IF ConfigGet(config, "auto_fallback", TRUE)
    THEN [attempts |-> 2, sent |-> second = "ok", raised |-> second # "ok"]
    ELSE [attempts |-> 1, sent |-> FALSE, raised |-> TRUE]

\* _validate_email_config on the two text fields of the settings dialog
ValidateEmailConfig(address, password) == HasAt(address) /\ password # << >>

\* A dict with the key or without it.
Optional(key) ==
    {[k \in {} |-> TRUE]} \cup {[k \in {key} |-> b] : b \in BOOLEAN}

\* Dicts an email_config.json may hold: written by either loader, or saved
\* by a session, with or without the two flags.
SavedConfigs ==
    {LegacyDefaultConfig, DefaultEmailConfig}
    \cup {[enabled |-> e, gmail_address |-> a, gmail_app_password |-> p,
           recipient |-> a] @@ s @@ f :
              e \in BOOLEAN, a \in {NoAddress} \cup Addresses, p \in {<< >>, <<"p">>},
              s \in Optional("simulation_mode"), f \in Optional("auto_fallback")}

ConfigFiles ==
    {AbsentConfig, [kind |-> "empty"], [kind |-> "badjson"]}
    \cup {ConfigFile(c) : c \in SavedConfigs}

\* open("email_config.json", "w") and json.dump succeed, or the open fails.
ConfigWrites == {"ok", "fail"}

\* _save_email_config: the file afterwards; a failed write is logged only.
SaveEmailConfig(config, f, w) == IF w = "ok" THEN ConfigFile(config) ELSE f

\* ------------------------------------------------ actions of NotifierSpec
\* Everything but self.email_config and the call record, which also carries
\* email_config.json as the call leaves it (config_file).
notifierFrame ==
    <<jobs, file, backups, email_enabled_switch, gmail_address_field, mail_prompted,
      filter, is_scheduler_running, is_search_cancelled, buttons, threads,
      ui_update_queue, bgWidgetWrites, lastNotified, startClick>>

\* The application is started on whatever email_config.json it finds.
CallInitEmailConfig ==
    /\ phase = "off"
    /\ \E f \in ConfigFiles, w1 \in ConfigWrites, w2 \in ConfigWrites,
          c1 \in BOOLEAN, c2 \in BOOLEAN :
        LET r == InitEmailConfig(f, w1, c1, w2, c2)
        IN /\ email_config' = r.config
           /\ phase' = IF r.raised THEN "off" ELSE "on"
           /\ lastCall' = [op |-> "__init__", prefile |-> f, w1 |-> w1, w2 |-> w2,
                           config_file |-> r.file, raised |-> r.raised]
    /\ UNCHANGED notifierFrame

\* _toggle_simulation_mode
ToggleSimulationMode ==
    /\ phase = "on"
    /\ \E v \in BOOLEAN, w \in ConfigWrites :
        /\ email_config' = [simulation_mode |-> v] @@ email_config
        /\ lastCall' = [op |-> "_toggle_simulation_mode", v |-> v,
                         config_file |-> SaveEmailConfig(email_config',
                                             lastCall.config_file, w)]
    /\ UNCHANGED <<phase, notifierFrame>>

\* _toggle_auto_fallback
ToggleAutoFallback ==
    /\ phase = "on"
    /\ \E v \in BOOLEAN, w \in ConfigWrites :
        /\ email_config' = [auto_fallback |-> v] @@ email_config
        /\ lastCall' = [op |-> "_toggle_auto_fallback", v |-> v,
                         config_file |-> SaveEmailConfig(email_config',
                                             lastCall.config_file, w)]
    /\ UNCHANGED <<phase, notifierFrame>>

\* update_success calls _send_email_notification(subject, new_jobs).
CallSendEmailNotification ==
    /\ phase = "on"
    /\ \E first \in SmtpOutcomes, second \in SmtpOutcomes :
        lastCall' = [op |-> "_send_email_notification", config |-> email_config,
                     config_file |-> lastCall.config_file,
                     called |-> TRUE, is_test |-> FALSE,
                     first |-> first, second |-> second,
                     ret |-> SendEmailNotification(email_config, FALSE, first, second)]
    /\ UNCHANGED <<phase, email_config, notifierFrame>>

\* _send_test_email: validates the dialog's fields, then calls
\* _send_email_notification(subject, [], is_test=True) and logs what it raises.
CallSendTestEmail ==
    /\ phase = "on"
    /\ \E address \in {NoAddress} \cup Addresses, password \in {<< >>, <<"p">>},
          first \in SmtpOutcomes, second \in SmtpOutcomes :
        LET valid == ValidateEmailConfig(address, password)
        IN lastCall' = [op |-> "_send_test_email", config |-> email_config,
                        config_file |-> lastCall.config_file,
                        called |-> valid, is_test |-> TRUE,
                        first |-> first, second |-> second,
                        ret |-> IF valid
                                THEN SendEmailNotification(email_config, TRUE, first, second)
                                ELSE NoSend]
    /\ UNCHANGED <<phase, email_config, notifierFrame>>

NotifierNext ==
    \/ CallInitEmailConfig
    \/ ToggleSimulationMode
    \/ ToggleAutoFallback
    \/ CallSendEmailNotification
    \/ CallSendTestEmail

NotifierSpec == NoObjects /\ [][NotifierNext]_vars

\* ------------------------------------------------------ price extraction
\* A text is a sequence of characters. An ASCII character is written as
\* itself, any other character by its code point ("u5186" is the yen sign
\* character of payment_info).
En == "u5186"

Nami == "u301c"

ManEn == <<"u4e07", En>>

\* '時給'
Jikyu == <<"u6642", "u7d66">>

\* '記事単価'
KijiTanka == <<"u8a18", "u4e8b", "u5358", "u4fa1">>

\* '報酬'
Hoshu == <<"u5831", "u916c">>

\* One character that stands for a run of 400 characters '9': a number
\* with more digits than a double can hold. The inputs put it in integer
\* parts only.
NineRun == "9x400"

DigitChars == <<"0", "1", "2", "3", "4", "5", "6", "7", "8", "9">>

\* \d
IsDigit(c) == c = NineRun \/ \E i \in 1..10 : DigitChars[i] = c

DigitVal(c) == (CHOOSE i \in 1..10 : DigitChars[i] = c) - 1

\* \w: every character of the inputs but these.
IsWord(c) ==
    c \notin {" ", "(", ")", ",", ".", "/", "u3001", "u3010", "u3011", Nami,
              "uff08", "uff09", "uff1a"}

\* Mutant of Returned: "not found" is reported as 0.
ReturnedNoSentinel(v) ==
    [raised |-> "none", big |-> FALSE, value |-> IF v < 0 THEN 0 ELSE v]

\* What the call gives back: a Python int (big when it is the value of a
\* NineRun, which no model integer holds) or the exception it raises.
Returned(v) == [raised |-> "none", big |-> FALSE, value |-> v]

ReturnedBig == [raised |-> "none", big |-> TRUE, value |-> 0]

Overflow == [raised |-> "OverflowError", big |-> FALSE, value |-> 0]

\* The index after the longest run of digits (of spaces) that starts at i.
RECURSIVE DigitsEnd(_, _)
DigitsEnd(t, i) ==
    IF i <= Len(t) /\ IsDigit(t[i]) THEN DigitsEnd(t, i + 1) ELSE i

RECURSIVE SpacesEnd(_, _)
SpacesEnd(t, i) ==
    IF i <= Len(t) /\ IsSpace(t[i]) THEN SpacesEnd(t, i + 1) ELSE i

\* The index after \d+(?:\.\d+)? matched greedily from i.
NumberEnd(t, i) ==
    LET d == DigitsEnd(t, i)
    IN IF d + 1 <= Len(t) /\ t[d] = "." /\ IsDigit(t[d + 1])
       THEN DigitsEnd(t, d + 1)
       ELSE d

\* lit occurs in t at index i
HasLit(t, i, lit) ==
    i + Len(lit) - 1 <= Len(t) /\ SubSeq(t, i, i + Len(lit) - 1) = lit

\* (\d+(?:\.\d+)?)\s*lit tried at i: the index after the captured group,
\* 0 when there is no match at i. The fraction is given up when the match
\* fails with it.
NumberBeforeEnd(t, i, lit) ==
    IF ~IsDigit(t[i]) THEN 0
    ELSE IF HasLit(t, SpacesEnd(t, NumberEnd(t, i)), lit) THEN NumberEnd(t, i)
    ELSE IF HasLit(t, SpacesEnd(t, DigitsEnd(t, i)), lit) THEN DigitsEnd(t, i)
    ELSE 0

Least(S) == CHOOSE i \in S : \A j \in S : i <= j

\* re.findall(r'(\d+(?:\.\d+)?)\s*lit', t)[0], << >> when nothing matches
FirstNumberBefore(t, lit) ==
    LET starts == {i \in 1..Len(t) : NumberBeforeEnd(t, i, lit) # 0}
    IN IF starts = {} THEN << >>
       ELSE SubSeq(t, Least(starts), NumberBeforeEnd(t, Least(starts), lit) - 1)

\* re.findall(r'lit\s*(\d+(?:\.\d+)?)', t)[0], << >> when nothing matches
FirstNumberAfter(t, lit) ==
    LET from(i) == SpacesEnd(t, i + Len(lit))
        starts == {i \in 1..Len(t) :
                      /\ HasLit(t, i, lit)
                      /\ from(i) <= Len(t)
                      /\ IsDigit(t[from(i)])}
    IN IF starts = {} THEN << >>
       ELSE SubSeq(t, from(Least(starts)), NumberEnd(t, from(Least(starts))) - 1)

\* text.split(sep)[0]
RECURSIVE BeforeFirst(_, _)
BeforeFirst(t, sep) ==
    IF t = << >> \/ Head(t) = sep THEN << >>
    ELSE <<Head(t)>> \o BeforeFirst(Tail(t), sep)

HasNineRun(s) == \E i \in 1..Len(s) : s[i] = NineRun

\* The number a run of digits writes.
RECURSIVE DigitsValue(_)
DigitsValue(s) ==
    IF s = << >> THEN 0
    ELSE DigitsValue(SubSeq(s, 1, Len(s) - 1)) * 10 + DigitVal(s[Len(s)])

\* How many characters a run of digits has.
RECURSIVE DigitCount(_)
DigitCount(s) ==
    IF s = << >> THEN 0
    ELSE (IF Head(s) = NineRun THEN 400 ELSE 1) + DigitCount(Tail(s))

RECURSIVE Pow10(_)
Pow10(k) == IF k = 0 THEN 1 ELSE 10 * Pow10(k - 1)

IntegerPart(num) == BeforeFirst(num, ".")

FractionPart(num) == SubSeq(num, Len(IntegerPart(num)) + 2, Len(num))

\* int(float(num)): the fraction is cut off; float() of a NineRun is inf
\* and int(inf) raises OverflowError.
IntOfFloat(num) ==
    IF HasNineRun(num) THEN Overflow
    ELSE Returned(DigitsValue(IntegerPart(num)))

\* int(float(num) * 10000). The product is taken exactly, which is what
\* the double arithmetic gives for fractions of one digit (with two digits
\* it can be one less: int(float("0.57") * 10000) is 5699).
IntOfTenThousandFloats(num) ==
    IF HasNineRun(num) THEN Overflow
    ELSE Returned(DigitsValue(IntegerPart(num)) * 10000
                  + (DigitsValue(FractionPart(num)) * 10000)
                        \div Pow10(Len(FractionPart(num))))

\* int(run) of a run of digits
IntOfDigits(run) ==
    IF HasNineRun(run) THEN ReturnedBig ELSE Returned(DigitsValue(run))

\* The longest run of digits starting at i.
RunAt(t, i) == SubSeq(t, i, DigitsEnd(t, i) - 1)

\* The indices where a run of digits starts.
RunStarts(t) ==
    {i \in 1..Len(t) : IsDigit(t[i]) /\ (i = 1 \/ ~IsDigit(t[i - 1]))}

\* \b on both sides of the run that starts at i
WordBounded(t, i) ==
    /\ i = 1 \/ ~IsWord(t[i - 1])
    /\ DigitsEnd(t, i) > Len(t) \/ ~IsWord(t[DigitsEnd(t, i)])

\* re.findall(r'\d{5,}', t)[0], << >> when nothing matches
FirstLongRun(t) ==
    LET starts == {i \in RunStarts(t) : DigitCount(RunAt(t, i)) >= 5}
    IN IF starts = {} THEN << >> ELSE RunAt(t, Least(starts))

\* re.findall(r'\b\d{lo,hi}\b', t)[0], << >> when nothing matches; hi = 0
\* stands for no upper limit.
FirstBoundedRun(t, lo, hi) ==
    LET starts == {i \in RunStarts(t) :
                      /\ WordBounded(t, i)
                      /\ DigitCount(RunAt(t, i)) >= lo
                      /\ hi = 0 \/ DigitCount(RunAt(t, i)) <= hi}
    IN IF starts = {} THEN << >> ELSE RunAt(t, Least(starts))

\* The last rule: numbers of up to three digits are scaled.
ScaledSmall(run) ==
    LET value == DigitsValue(run)
    IN IF value < 10 THEN Returned(value * 1000)
       ELSE IF value < 100 THEN Returned(value * 100)
       ELSE Returned(value)

\* The rules of extract_price_from_text after its table of literals.
PriceRules(t) ==
    LET man == FirstNumberBefore(t, ManEn)
        left_part == Strip(BeforeFirst(t, Nami))
        range == FirstNumberBefore(left_part, <<En>>)
        hourly == FirstNumberAfter(t, Jikyu)
        article == FirstNumberAfter(t, KijiTanka)
        yen == FirstNumberBefore(t, <<En>>)
    IN IF Contains(ManEn, t) /\ man # << >> THEN IntOfTenThousandFloats(man)
       ELSE IF Contains(<<Nami>>, t) /\ Contains(<<En>>, left_part) /\ range # << >>
       THEN IntOfFloat(range)
       ELSE IF Contains(Jikyu, t) /\ hourly # << >> THEN IntOfFloat(hourly)
       ELSE IF Contains(KijiTanka, t) /\ article # << >> THEN IntOfFloat(article)
       ELSE IF Contains(<<En>>, t) /\ yen # << >> THEN IntOfFloat(yen)
       ELSE IF Contains(Hoshu, t) /\ FirstLongRun(t) # << >>
       THEN IntOfDigits(FirstLongRun(t))
       ELSE IF Contains(Hoshu, t) /\ FirstBoundedRun(t, 4, 4) # << >>
       THEN IntOfDigits(FirstBoundedRun(t, 4, 4))
       ELSE IF FirstBoundedRun(t, 5, 0) # << >>
       THEN IntOfDigits(FirstBoundedRun(t, 5, 0))
       ELSE IF FirstBoundedRun(t, 4, 4) # << >>
       THEN IntOfDigits(FirstBoundedRun(t, 4, 4))
       ELSE IF FirstBoundedRun(t, 1, 3) # << >>
       THEN ScaledSmall(FirstBoundedRun(t, 1, 3))
       ELSE Returned(-1)

\* "if ... in text: return 50", the special case before the table
SpecialCase ==
    <<"u5831", "u916c", "u306f", "5", "0", ".", "0", "u5186", "u3067", "u3059">>

\* The literals compared with text, in the order of the source.
PriceTable ==
    <<[text |-> <<"5", "0", "0", "0", "0", "u5186">>,
       price |-> 50000],
      [text |-> <<"1", "0", "0", "0", "0", "u5186">>,
       price |-> 10000],
      [text |-> <<"5", "0", "0", "u5186">>,
       price |-> 500],
      [text |-> <<"1", "0", "0", "0", "0", "u5186", " ", "u301c", " ", "2", "0", "0", "0", "0", "u5186">>,
       price |-> 10000],
      [text |-> <<"5", "0", "0", "0", "0", "u5186", "u301c", "1", "0", "0", "0", "0", "0", "u5186">>,
       price |-> 50000],
      [text |-> <<"u301c", " ", "5", "0", "0", "0", "0", "u5186">>,
       price |-> 50000],
      [text |-> <<"1", "0", ",", "0", "0", "0", "u5186">>,
       price |-> 10000],
      [text |-> <<"1", ",", "0", "0", "0", ",", "0", "0", "0", "u5186">>,
       price |-> 1000000],
      [text |-> <<"5", "0", "0", "0", "0", ".", "0", "u5186">>,
       price |-> 50000],
      [text |-> <<"1", "0", "0", "0", "0", ".", "5", "u5186">>,
       price |-> 10000],
      [text |-> <<"1", "0", "0", "0", "0", "0", ".", "0", "u5186", " ", "u301c", " ", "3", "0", "0", "0", "0", "0", ".", "0", "u5186">>,
       price |-> 100000],
      [text |-> <<"1", "0", "0", "0", "0", ".", "0", "u5186", " ", "u301c", " ", "5", "0", "0", "0", "0", ".", "0", "u5186">>,
       price |-> 10000],
      [text |-> <<"u6642", "u7d66", " ", "1", "5", "0", "0", "u5186", " ", "u301c", " ", "2", "0", "0", "0", "u5186">>,
       price |-> 1500],
      [text |-> <<"u6642", "u7d66", " ", "1", "5", "0", "0", "u5186">>,
       price |-> 1500],
      [text |-> <<"u6642", "u7d66", "1", "0", "0", "0", "u5186", "u301c", "1", "5", "0", "0", "u5186">>,
       price |-> 1000],
      [text |-> <<"u8a18", "u4e8b", "u5358", "u4fa1", " ", "3", "0", "0", "0", "u5186">>,
       price |-> 3000],
      [text |-> <<"u8a18", "u4e8b", "u5358", "u4fa1", " ", "2", "4", "0", "0", ".", "0", "u5186", " ", "(", "1", "5", "0", "0", ".", "0", "u301c", "1", "5", "0", "0", ".", "0", "u6587", "u5b57", ")">>,
       price |-> 2400],
      [text |-> <<"5", "u4e07", "u5186">>,
       price |-> 50000],
      [text |-> <<"1", "0", "u4e07", "u5186", "u301c", "2", "0", "u4e07", "u5186">>,
       price |-> 100000],
      [text |-> <<"5", ".", "5", "u4e07", "u5186">>,
       price |-> 55000],
      [text |-> <<"u5fdc", "u76f8", "u8ac7">>,
       price |-> -1],
      [text |-> <<"u3010", "u5831", "u916c", "u3011", "5", "0", "0", "0", "0", "u5186", "uff08", "u7a0e", "u8fbc", "uff09", "/", " ", "u7d0d", "u54c1", "u7269", "u306b", "u3088", "u3063", "u3066", "u5909", "u52d5", "u3042", "u308a">>,
       price |-> 50000],
      [text |-> <<"u4e00", "u672c", "u3042", "u305f", "u308a", "5", "0", "0", "0", "u5186", "u306e", "u5831", "u916c", "u3092", "u304a", "u652f", "u6255", "u3044", "u3057", "u307e", "u3059">>,
       price |-> 5000],
      [text |-> <<"u7d0d", "u671f", "uff1a", "3", "u65e5", "u4ee5", "u5185", "u3001", "u5831", "u916c", "uff1a", "2", "0", "0", "0", "0", "u5186">>,
       price |-> 20000]>>

\* The strings of the table.
TableTexts == {PriceTable[i].text : i \in 1..Len(PriceTable)}

TablePrice(t) ==
    PriceTable[Least({i \in 1..Len(PriceTable) : PriceTable[i].text = t})].price

\* A Python value: a str with its text, or a value of another type.
StrValue(t) == [type |-> "str", text |-> t]

\* extract_price_from_text(text)
ExtractPriceFromText(input) ==
    IF input.type # "str" \/ input.text = << >> THEN Returned(-1)
    ELSE IF Contains(SpecialCase, input.text) THEN Returned(50)
    ELSE IF input.text \in TableTexts THEN Returned(TablePrice(input.text))
    ELSE PriceRules(input.text)

\* ---------------------------------------------------- inputs of PriceSpec
MaxText == 3        \* longest text of which every spelling is tried

\* Every spelling of up to MaxText of these characters.
ShortTexts ==
    UNION {[1..n -> {"0", "1", "5", ",", ".", " ", "x", ManEn[1], En, Nami,
                     Jikyu[1], Jikyu[2]}] : n \in 0..MaxText}

\* Longer texts: a number between a lead and a tail.
RuleTexts ==
    {p \o n \o s :
        p \in {<< >>, Jikyu, Jikyu \o <<" ">>, KijiTanka \o <<" ">>, Hoshu,
               Hoshu \o <<"uff1a">>, <<"x">>, <<"x", " ">>},
        n \in {<<"7">>, <<"4", "2">>, <<"1", "2", "3">>, <<"1", "2", "3", "4">>,
               <<"1", "2", "3", "4", "5">>, <<"1", ",", "0", "0", "0">>,
               <<"1", "5", "0", "0", ".", "5">>, <<NineRun>>},
        s \in {<< >>, <<En>>, <<" ", En>>, <<"x">>, ManEn, <<" ", "x">>}}

\* Texts with an amount directly followed by ManEn, after and before other
\* amounts.
ManTexts ==
    {p \o n \o ManEn \o s :
        p \in {<< >>, <<"x">>, SpecialCase, <<"3", " ">> \o ManEn \o <<" ">>,
               <<"1", "0", "0", En, Nami>>, Jikyu \o <<"2", En, " ">>},
        n \in {<<"5">>, <<"1", "0">>, <<"1", ".", "5">>, <<NineRun>>},
        s \in {<< >>, <<Nami, "2", "0">> \o ManEn, <<"x">>}}

\* Range texts as get_job_offers writes them, with and without spaces.
RangeAmounts ==
    {<<"1", "0", "0">>, <<"2", "0", "0">>, <<"1", "0", "0", "0", "0">>,
     <<"2", "0", "0", "0", "0">>, <<"1", "0", ",", "0", "0", "0">>,
     <<"2", "0", ",", "0", "0", "0">>}

Gaps == {<< >>, <<" ">>}

RangeText(a, g1, g2, b) == a \o <<En>> \o g1 \o <<Nami>> \o g2 \o b \o <<En>>

RangeTexts ==
    {RangeText(a, g1, g2, b) : a \in RangeAmounts, g1 \in Gaps, g2 \in Gaps,
                               b \in RangeAmounts}

\* None, 5, ['a'], b'5' and True, and the texts.
PriceInputs ==
    {[type |-> ty, text |-> << >>] : ty \in {"NoneType", "int", "list", "bytes", "bool"}}
    \cup {StrValue(t) : t \in ShortTexts \cup RuleTexts \cup ManTexts \cup RangeTexts
                               \cup TableTexts \cup {SpecialCase}}

\* --------------------------------------------------- actions of PriceSpec
\* No object exists; the argument of the next call has been chosen.
PriceInit ==
    /\ jobs = EmptyDict
    /\ file = AbsentFile
    /\ backups = {}
    /\ \E input \in PriceInputs : lastCall = [op |-> "argument", input |-> input]
    /\ AppOff(DefaultEmailConfig)

CallExtractPriceFromText ==
    /\ lastCall.op = "argument"
    /\ lastCall' = [op |-> "extract_price_from_text", input |-> lastCall.input,
                    ret |-> ExtractPriceFromText(lastCall.input)]
    /\ UNCHANGED <<jobs, file, backups, appVars>>

PriceSpec == PriceInit /\ [][CallExtractPriceFromText]_vars

\* ------------------------------------------------------ storage filters
\* JobStorage.filter_jobs_by_keywords(keywords)
FilterJobsByKeywords(d, keywords) ==
    LET hit(j) == \E i \in 1..Len(keywords) :
                      \/ Contains(Lower(keywords[i]), Lower(j.title))
                      \/ Contains(Lower(keywords[i]), Lower(j.description))
    IN IF keywords = << >> THEN DictValues(d) ELSE SelectSeq(DictValues(d), hit)

\* JobStorage.filter_jobs_by_date(days). last_released_at is '' (empty), no
\* ISO 8601 text (invalid), or a timestamp of a day with an offset (aware)
\* or without one (naive). datetime.now() is naive: subtracting an aware
\* timestamp raises TypeError, which the loop logs before it goes on.
FilterJobsByDate(d, days) ==
    LET keep(j) == /\ j.last_released_at.kind = "naive"
                   /\ Today - j.last_released_at.day < days
    IN IF days <= 0 THEN DictValues(d) ELSE SelectSeq(DictValues(d), keep)

\* ---------------------------------------------------- inputs of FilterSpec
MaxStored == 2      \* most listings in the store
MaxKeywords == 2    \* most keywords in one call

\* Stored listings: titles and descriptions in either case, timestamps of
\* every kind, a day or a month old.
FilterListings ==
    {[id |-> IntId("1"), title |-> <<"P", "y">>, description |-> << >>,
      last_released_at |-> [kind |-> "aware", day |-> Today - 1]],
     [id |-> IntId("2"), title |-> <<"a", "i">>, description |-> <<"p", "y">>,
      last_released_at |-> [kind |-> "naive", day |-> Today - 1]],
     [id |-> IntId("3"), title |-> <<"a">>, description |-> << >>,
      last_released_at |-> [kind |-> "aware", day |-> Today - 30]],
     [id |-> IntId("4"), title |-> <<"P">>, description |-> << >>,
      last_released_at |-> [kind |-> "naive", day |-> Today - 30]],
     [id |-> IntId("5"), title |-> <<"y">>, description |-> << >>,
      last_released_at |-> [kind |-> "empty", day |-> 0]],
     [id |-> IntId("6"), title |-> <<"y">>, description |-> <<"A">>,
      last_released_at |-> [kind |-> "invalid", day |-> 0]]}

\* The keyword lists of a call: '', 'p', 'Py' and 'y ' in any order.
KeywordLists ==
    UNION {[1..n -> {<< >>, <<"p">>, <<"P", "y">>, <<"y", " ">>}] : n \in 0..MaxKeywords}

\* --------------------------------------------------- actions of FilterSpec
\* A store that holds up to MaxStored listings, each once.
FilterInit ==
    /\ \E js \in UNION {[1..n -> FilterListings] : n \in 0..MaxStored} :
        /\ \A i, j \in 1..Len(js) : js[i] = js[j] => i = j
        /\ jobs = KeyedById(js)
    /\ file = AbsentFile
    /\ backups = {}
    /\ lastCall = NoCall
    /\ AppOff(DefaultEmailConfig)

CallFilterJobsByKeywords ==
    /\ \E keywords \in KeywordLists :
        lastCall' = [op |-> "filter_jobs_by_keywords", keywords |-> keywords,
                     ret |-> FilterJobsByKeywords(jobs, keywords)]
    /\ UNCHANGED <<jobs, file, backups, appVars>>

\* The scraper's search over the stored listings.
CallSearchJobsByKeyword ==
    /\ \E keywords \in KeywordLists :
        lastCall' = [op |-> "search_jobs_by_keyword", keywords |-> keywords,
                     ret |-> SearchJobsByKeyword(DictValues(jobs), keywords)]
    /\ UNCHANGED <<jobs, file, backups, appVars>>

CallFilterJobsByDate ==
    /\ \E days \in {-1, 0, 1, 7, 31} :
        lastCall' = [op |-> "filter_jobs_by_date", days |-> days,
                     ret |-> FilterJobsByDate(jobs, days)]
    /\ UNCHANGED <<jobs, file, backups, appVars>>

FilterNext ==
    \/ CallFilterJobsByKeywords
    \/ CallSearchJobsByKeyword
    \/ CallFilterJobsByDate

FilterSpec == FilterInit /\ [][FilterNext]_vars

\* ------------------------------------------------- claims about the store
BatchIds(batch) == {Str(batch[i].id) : i \in 1..Len(batch)}

LastIndexOf(batch, key) ==
    CHOOSE i \in 1..Len(batch) :
        /\ Str(batch[i].id) = key
        /\ \A j \in 1..Len(batch) : Str(batch[j].id) = key => j <= i

SameDict(a, b) ==
    /\ DictKeys(a) = DictKeys(b)
    /\ \A key \in DictKeys(a) : DictGet(a, key) = DictGet(b, key)

\* C1: update_jobs(batch) returns exactly one record for every id of the batch
\* whose stringified form was not a key of the store before the call, and no
\* record whose stringified id was already a key.
C1_EachNewIdReportedOnce ==
    lastCall.op = "update_jobs" =>
        LET batch == lastCall.batch
            ret == lastCall.ret
            old == DictKeys(lastCall.pre)
        IN /\ \A i \in 1..Len(batch) :
                Str(batch[i].id) \notin old =>
                    Cardinality({j \in 1..Len(ret) : Str(ret[j].id) = Str(batch[i].id)}) = 1
           /\ \A j \in 1..Len(ret) : Str(ret[j].id) \notin old

\* C2: after update_jobs(batch) the store maps every id of the batch to the last
\* record of the batch carrying it, and every stored record whose id does not
\* occur in the batch is unchanged.
C2_LastWriteWinsAndFrame ==
    lastCall.op = "update_jobs" =>
        LET batch == lastCall.batch
            pre == lastCall.pre
        IN /\ \A key \in BatchIds(batch) :
                /\ key \in DictKeys(jobs)
                /\ DictGet(jobs, key) = batch[LastIndexOf(batch, key)]
           /\ \A key \in DictKeys(pre) \ BatchIds(batch) :
                /\ key \in DictKeys(jobs)
                /\ DictGet(jobs, key) = DictGet(pre, key)
           /\ DictKeys(jobs) = DictKeys(pre) \cup BatchIds(batch)

\* An update that supersedes a stored record and leaves another one alone.
C2_Witness ==
    /\ lastCall.op = "update_jobs"
    /\ \E key \in DictKeys(lastCall.pre) \cap BatchIds(lastCall.batch) :
            DictGet(lastCall.pre, key) # DictGet(jobs, key)
    /\ DictKeys(lastCall.pre) \ BatchIds(lastCall.batch) # {}
    /\ Len(lastCall.batch) > Cardinality(BatchIds(lastCall.batch))

\* C3: in every state reachable by load_jobs, update_jobs and clear_jobs, each
\* key of JobStorage.jobs is str(id) of the record stored under it, so no two
\* stored records have the same listing id (1 and '1' being the same id).
C3_KeysAreStringifiedIds ==
    /\ \A i \in 1..Len(jobs) : jobs[i].k = Str(jobs[i].v.id)
    /\ \A i, j \in 1..Len(jobs) : i # j => Str(jobs[i].v.id) # Str(jobs[j].v.id)

\* A loaded file that listed the ids 1 and '1': one record is kept for them.
C3_Witness ==
    /\ lastCall.op = "load_jobs"
    /\ lastCall.prefile.kind = "list"
    /\ Len(lastCall.prefile.content) > Len(jobs)
    /\ \E i \in 1..Len(jobs) : jobs[i].v.id.type = "str"

\* The last call wrote the store file successfully.
WroteFile ==
    \/ lastCall.op \in {"update_jobs", "clear_jobs"} /\ lastCall.w = "ok"
    \/ /\ lastCall.op = "load_jobs"
       /\ lastCall.prefile.kind \in {"absent", "empty", "badjson"}
       /\ lastCall.w = "ok"

\* C5: when the write succeeds, save_jobs followed by load_jobs on the same file
\* yields the same key set and the same record under each key, so after every
\* call that wrote successfully the file content equals the in-memory store.
C5_SaveLoadRoundTrip ==
    WroteFile =>
        /\ file.kind = "list"
        /\ SameDict(LoadJobs(EmptyDict, file, backups, TRUE, "ok").jobs, jobs)
        /\ LoadJobs(EmptyDict, file, backups, TRUE, "ok").file = file

\* A successful write of a store holding two listings, one with a string id.
C5_Witness ==
    /\ lastCall.op = "update_jobs"
    /\ lastCall.w = "ok"
    /\ Len(jobs) = 2
    /\ \E i \in 1..Len(jobs) : jobs[i].v.id.type = "str"
    /\ lastCall.pre # EmptyDict

\* C6 as stated: when the store file exists, is non-empty and does not parse as
\* JSON, load_jobs ends with an empty store, the file renamed to a backup (when
\* the rename succeeds) and a fresh store file holding an empty list.
C6_FreshFileAfterCorruptLoad ==
    (lastCall.op = "load_jobs" /\ lastCall.prefile.kind = "badjson") =>
        /\ jobs = EmptyDict
        /\ lastCall.renameOk => lastCall.prefile \in backups
        /\ file = ListFile(<< >>)

\* C6 amended: the fresh store file holds an empty list when the write of
\* save_jobs succeeds; a failed write is swallowed and leaves no file (after the
\* rename), the corrupt file (open failed) or a partial file.
C6_FreshFileWhenWriteSucceeds ==
    (lastCall.op = "load_jobs" /\ lastCall.prefile.kind = "badjson") =>
        /\ jobs = EmptyDict
        /\ lastCall.renameOk => lastCall.prefile \in backups
        /\ lastCall.w = "ok" => file = ListFile(<< >>)
        /\ lastCall.w = "unchanged" =>
                file = IF lastCall.renameOk THEN AbsentFile ELSE lastCall.prefile
        /\ lastCall.w = "partial" => file = BadJsonFile

\* A corrupt file loaded with the rename and the write both succeeding.
C6_Witness ==
    /\ lastCall.op = "load_jobs"
    /\ lastCall.prefile.kind = "badjson"
    /\ lastCall.renameOk
    /\ lastCall.w = "ok"
    /\ lastCall.prebackups = {}
    /\ backups = {lastCall.prefile}
    /\ file = ListFile(<< >>)

\* ------------------------------------------- claims about the application
\* The ids a store file holds, as the keys load_jobs gives them.
FileIds(f) ==
    IF f.kind = "list"
    THEN {Str(f.content[i].id) : i \in {n \in 1..Len(f.content) : HasId(f.content[n])}}
    ELSE {}

\* C4: every listing the store file held when the previous session ended is in
\* the store once start-up (JobStorage.__init__, then _init_app) has finished.
C4_ListingsSurviveRestart ==
    [][Startup => FileIds(file) \subseteq DictKeys(jobs')]_vars

\* The criteria as C7 words them: the listing was last updated within the day
\* window, a keyword occurs in its title or description, its price is in range.
LastUpdatedWithin(job, days) == days <= 0 \/ Today - job.last_released_at <= days

MeetsCriteria(job, flt) ==
    /\ LastUpdatedWithin(job, flt.days)
    /\ flt.keywords # << >> => MatchesKeywords(job, flt.keywords)
    /\ flt.min_price > 0 => job.payment_info >= flt.min_price
    /\ flt.max_price > 0 => job.payment_info <= flt.max_price

InSeq(x, sq) == \E i \in 1..Len(sq) : sq[i] = x

\* C7: when the queued update_success of a fetch runs with notification
\* switched on and an address set, every new listing that meets the criteria is
\* among the jobs handed to _send_email_notification.
C7_NewMatchingListingIsNotified ==
    [][(/\ ProcessUiUpdate
        /\ Head(ui_update_queue).f = "update_success"
        /\ email_enabled_switch
        /\ gmail_address_field # NoAddress)
       => \A i \in 1..Len(Head(ui_update_queue).new_jobs) :
              MeetsCriteria(Head(ui_update_queue).new_jobs[i], filter)
                  => InSeq(Head(ui_update_queue).new_jobs[i], lastNotified')]_vars

\* C8: no background thread writes a widget or calls page.update itself.
C8_WidgetsWrittenOnlyByDrain == bgWidgetWrites = {}

\* C9: at most one background thread is inside a fetch-and-store sequence.
C9_AtMostOneFetchThread == Cardinality(Threads \ FreeThreads) <= 1

\* C10: a click on Start with a valid address and no scheduler running starts
\* the scheduler thread.
C10_StartClickStartsScheduler ==
    [][(/\ HandleStartClick
        /\ HasValidEmail(email_enabled_switch, gmail_address_field)
        /\ ~is_scheduler_running)
       => \E t \in Threads : threads'[t].kind = "scheduler"]_vars

\* The search controls at rest: search button shown, cancel button and
\* progress container hidden (search_button.disabled is never set).
SearchIdle ==
    /\ buttons.search_visible
    /\ ~buttons.cancel_visible
    /\ ~buttons.progress_visible

C26_CancelledSearchLeavesStore ==
    [][\A t \in Threads :
        (threads[t].kind = "search" /\ threads[t].cancelled /\ threads'[t].kind = "none")
            => jobs' = jobs /\ file' = file]_vars

\* C28: a search whose fetch returned no listings (get_job_offers gave [])
\* ends with the stored listings as they were.
C28_EmptyFetchLeavesStore ==
    [][\A t \in Threads :
        (/\ threads[t].kind = "search"
         /\ threads[t].pc = "fetched"
         /\ threads[t].jobs = << >>
         /\ threads'[t].kind = "none")
            => jobs' = jobs]_vars

\* C30: while no search is in progress, Refresh and Start are enabled only
\* with the notification switch on and an address holding '@', and Start
\* only while the scheduler is not running.
C30_ButtonsObeyOperationRule ==
    (phase = "on" /\ Running("search") = {} /\ ~buttons.cancel_visible)
        => /\ ~buttons.refresh_disabled
                => HasValidEmail(email_enabled_switch, gmail_address_field)
           /\ ~buttons.start_disabled
                => /\ HasValidEmail(email_enabled_switch, gmail_address_field)
                   /\ ~is_scheduler_running

C29_UpdatesInvokedOnceInOrder ==
    /\ [](lastCall.invoked \o ui_update_queue = lastCall.queued)
    /\ \A n \in 1..MaxUpdates :
           (Len(lastCall.queued) >= n) ~> (Len(lastCall.invoked) >= n)

\* Every update has been called, the first of them having raised.
C29_Witness ==
    /\ Len(lastCall.invoked) = MaxUpdates
    /\ lastCall.invoked[1].raises
    /\ ui_update_queue = << >>

\* ----------------------------------------------- claims about the scraper
\* The cases C13 lists: the request fails, the container or its data attribute
\* is missing, the attribute is no JSON, the payload has no searchResult key.
HasSearchResultKey(v) == v.t = "dict" /\ "searchResult" \in DictKeys(v.items)

ListedFailure(page) ==
    \/ page.kind = "request_failed"
    \/ /\ page.kind = "html"
       /\ \/ ~page.container
          \/ ~page.has_data
          \/ ~page.json
          \/ ~HasSearchResultKey(page.data)

\* C13: in each of those cases get_job_offers raises nothing and returns [].
C13_FailuresGiveEmptyList ==
    (lastCall.op = "get_job_offers" /\ ListedFailure(lastCall.page))
        => lastCall.ret = [raised |-> "none", jobs |-> << >>]

\* ---------------------------------------------- claims about the notifier
SendOps == {"_send_email_notification", "_send_test_email"}

\* The outcome of the last SMTP conversation of the recorded call.
LastAttempt == IF lastCall.ret.attempts = 2 THEN lastCall.second ELSE lastCall.first

\* C14: while simulation_mode is set, no call of _send_email_notification
\* opens an SMTP connection, for notifications and for test emails alike.
C14_SimulationOpensNoSmtp ==
    (lastCall.op \in SendOps /\ lastCall.called
        /\ ConfigGet(lastCall.config, "simulation_mode", TRUE))
        => lastCall.ret.attempts = 0

\* C15: one call of _send_email_notification makes at most two SMTP
\* attempts, the second exactly when the first raised and auto_fallback is
\* set; the call raises exactly when its last attempt failed.
C15_AtMostTwoSmtpAttempts ==
    (lastCall.op \in SendOps /\ lastCall.called)
        => /\ lastCall.ret.attempts \in 0..2
           /\ (lastCall.ret.attempts >= 1 =>
                  (lastCall.ret.attempts = 2
                      <=> (lastCall.first # "ok"
                              /\ ConfigGet(lastCall.config, "auto_fallback", TRUE))))
           /\ (lastCall.ret.raised
                  <=> (lastCall.ret.attempts >= 1 /\ LastAttempt # "ok"))
           /\ (lastCall.ret.sent
                  <=> (lastCall.ret.attempts >= 1 /\ LastAttempt = "ok"))

C15_Witness ==
    /\ lastCall.op = "_send_email_notification"
    /\ lastCall.ret.attempts = 2
    /\ lastCall.ret.raised

\* C16: after an SMTP send that failed on authentication with auto_fallback
\* enabled, the email configuration is in simulation mode.
C16_AuthFailureSwitchesToSimulation ==
    (lastCall.op \in SendOps /\ lastCall.called
        /\ lastCall.ret.attempts >= 1 /\ lastCall.first = "auth_error"
        /\ ConfigGet(lastCall.config, "auto_fallback", TRUE))
        => ConfigGet(email_config, "simulation_mode", TRUE)

\* The default record of the first run: enabled false, both flags set, and
\* a subject template.
HoldsDefaults(config) ==
    /\ {"enabled", "simulation_mode", "auto_fallback", "subject_template"}
           \subseteq DOMAIN config
    /\ ~config["enabled"]
    /\ config["simulation_mode"]
    /\ config["auto_fallback"]

\* C17: after __init__ on a first run (no email_config.json, the writes
\* succeed) self.email_config and the file both hold the default record.
C17_FirstRunMaterializesDefaults ==
    (lastCall.op = "__init__" /\ lastCall.prefile = AbsentConfig
        /\ lastCall.w1 = "ok" /\ lastCall.w2 = "ok")
        => /\ HoldsDefaults(email_config)
           /\ lastCall.config_file = ConfigFile(email_config)

\* ------------------------------------------ claims about price extraction
\* C18: for every input extract_price_from_text returns -1 or a
\* non-negative integer and never raises.
C18_ReturnsMinusOneOrNatural ==
    lastCall.op = "extract_price_from_text"
        => /\ lastCall.ret.raised = "none"
           /\ lastCall.ret.big \/ lastCall.ret.value >= -1

\* The runs of digits of t that ManEn follows directly and that are an
\* integer amount of their own: neither the fraction of a decimal nor a
\* group after a comma.
ManAmountStarts(t) ==
    {i \in RunStarts(t) :
        /\ HasLit(t, DigitsEnd(t, i), ManEn)
        /\ ~(i > 2 /\ t[i - 1] \in {".", ","} /\ IsDigit(t[i - 2]))}

\* C19: for every text with an integer amount N directly followed by ManEn
\* the call returns N * 10000 for the first such N, whatever else the text
\* holds (stated for the amounts a double holds).
C19_ManYenHasPriority ==
    (lastCall.op = "extract_price_from_text" /\ lastCall.input.type = "str"
        /\ ~HasNineRun(lastCall.input.text)
        /\ ManAmountStarts(lastCall.input.text) # {})
        => lastCall.ret =
               Returned(DigitsValue(RunAt(lastCall.input.text,
                                          Least(ManAmountStarts(lastCall.input.text))))
                        * 10000)

\* The amount a string of digits and thousands separators writes.
AmountValue(a) == DigitsValue(SelectSeq(a, IsDigit))

\* C20: for every range text (amount, yen sign, separator, amount, yen
\* sign, with or without spaces around the separator, the first amount not
\* above the second) the call returns the lowest amount of the range.
C20_RangeGivesLowestAmount ==
    lastCall.op = "extract_price_from_text"
        => \A a \in RangeAmounts, g1 \in Gaps, g2 \in Gaps, b \in RangeAmounts :
              (/\ AmountValue(a) <= AmountValue(b)
               /\ lastCall.input = StrValue(RangeText(a, g1, g2, b)))
                  => lastCall.ret = Returned(AmountValue(a))

\* ",ddd" repeated
RECURSIVE IsGroupTail(_)
IsGroupTail(s) ==
    \/ s = << >>
    \/ /\ Len(s) >= 4
       /\ s[1] = ","
       /\ \A i \in 2..4 : IsDigit(s[i]) /\ s[i] # NineRun
       /\ IsGroupTail(SubSeq(s, 5, Len(s)))

\* One to three digits, then one or more groups of a comma and three digits.
IsCommaAmount(a) ==
    \E k \in 1..3 :
        /\ k < Len(a)
        /\ \A i \in 1..k : IsDigit(a[i]) /\ a[i] # NineRun
        /\ IsGroupTail(SubSeq(a, k + 1, Len(a)))

\* C21: for every amount written with thousands separators and followed by
\* the yen sign the call returns the integer left when the commas are removed.
C21_CommaAmountIsRead ==
    (lastCall.op = "extract_price_from_text" /\ lastCall.input.type = "str"
        /\ Len(lastCall.input.text) >= 2
        /\ lastCall.input.text[Len(lastCall.input.text)] = En
        /\ IsCommaAmount(SubSeq(lastCall.input.text, 1, Len(lastCall.input.text) - 1)))
        => lastCall.ret =
               Returned(AmountValue(SubSeq(lastCall.input.text, 1,
                                           Len(lastCall.input.text) - 1)))

\* C22: for every text without a digit, for the empty string and for None
\* the call returns -1.
C22_NoDigitGivesMinusOne ==
    (lastCall.op = "extract_price_from_text"
        /\ lastCall.input.type \in {"str", "NoneType"}
        /\ \A i \in 1..Len(lastCall.input.text) : ~IsDigit(lastCall.input.text[i]))
        => /\ lastCall.ret.raised = "none"
           /\ ~lastCall.ret.big
           /\ lastCall.ret.value = -1

C22_Witness ==
    /\ lastCall.op = "extract_price_from_text"
    /\ lastCall.input = StrValue(<<"x", En>>)
    /\ lastCall.ret.raised = "none"

\* C25: for every literal of the table the value the table returns is the
\* value the rules after the table give for that string.
C25_TableAgreesWithRules ==
    (lastCall.op = "extract_price_from_text" /\ lastCall.input.type = "str"
        /\ lastCall.input.text \in TableTexts)
        => lastCall.ret = PriceRules(lastCall.input.text)

\* ------------------------------------------- claims about the filters
\* Some non-empty keyword occurs in the title or the description of j, the
\* letter case ignored.
KeywordOccurs(j, keywords) ==
    \E i \in 1..Len(keywords) :
        /\ keywords[i] # << >>
        /\ \/ Contains(Lower(keywords[i]), Lower(j.title))
           \/ Contains(Lower(keywords[i]), Lower(j.description))

\* C23: filter_jobs_by_keywords and search_jobs_by_keyword both select a
\* listing exactly when some non-empty keyword occurs in its title or
\* description, compared without regard to case (stated for calls with at
\* least one keyword).
C23_KeywordFiltersIgnoreCase ==
    (lastCall.op \in {"filter_jobs_by_keywords", "search_jobs_by_keyword"}
        /\ lastCall.keywords # << >>)
        => LET selected(j) == KeywordOccurs(j, lastCall.keywords)
           IN lastCall.ret = SelectSeq(DictValues(jobs), selected)

\* C24: filter_jobs_by_date(days) returns every stored listing when
\* days <= 0, and for days > 0 exactly the stored listings whose
\* timezone-aware last_released_at is fewer than days whole days old.
C24_DateFilterKeepsRecentListings ==
    lastCall.op = "filter_jobs_by_date"
        => LET recent(j) == /\ j.last_released_at.kind = "aware"
                            /\ Today - j.last_released_at.day < lastCall.days
           IN lastCall.ret = IF lastCall.days <= 0 THEN DictValues(jobs)
                             ELSE SelectSeq(DictValues(jobs), recent)

====
